---------------------------- MODULE Spec2Model ----------------------------
(***************************************************************************)
(* A model of the Clarity VM front-end of blockstack-core.                 *)
(*                                                                         *)
(* Specification Spec models src/vm/clarity.rs: one ClarityInstance, the   *)
(* block connection it hands out, and every operation of both.  The        *)
(* backing store (MarfedKV), the nested-transaction databases, the cost    *)
(* tracker and the interpreter are collaborators whose code lives outside  *)
(* the modelled files; they are modelled from the design document and from *)
(* the way clarity.rs uses them.                                           *)
(***************************************************************************)
EXTENDS Integers, Sequences, FiniteSets, TLC

(***************************************************************************)
(* Bounds of the model.                                                    *)
(***************************************************************************)
\* The model's u64::max_value(): cost counters live in 0..U64Max.
U64Max == 2

(***************************************************************************)
(* Option<T>: None is the empty tuple, Some(x) the one-element tuple.      *)
(***************************************************************************)
None == <<>>
Some(x) == <<x>>

(***************************************************************************)
(* Results of calls.  A call returns Ok(v), Err(e), or panics.             *)
(***************************************************************************)
Ok(v) == <<"Ok", v>>
Err(e) == <<"Err", e>>
Panic(msg) == <<"Panic", msg>>
IsOk(r) == r[1] = "Ok"
IsErr(r) == r[1] = "Err"
IsPanic(r) == r[1] = "Panic"

(***************************************************************************)
(* Contracts and sources.  Contract A is the contract of test_tx_roll_backs *)
(* (a data variable bar, get-bar, set-bar); contract B is a contract whose *)
(* code calls A through contract-call?.                                    *)
(***************************************************************************)
ContractIds == {"A", "B"}
ValidSource(id) == IF id = "A" THEN "src_A" ELSE "src_B"
Sources(id) == {ValidSource(id), "src_unparsable", "src_illtyped"}
\* Every metered phase of an operation charges nothing or one unit of cost.
Charges == {0, 1}

(***************************************************************************)
(* Keys of the backing store.                                              *)
(***************************************************************************)
ContractKey(id) == <<"contract", id>>
AnalysisKey(id) == <<"analysis", id>>
VarKey(id, name) == <<"var", id, name>>

EmptyKV == [k \in {} |-> None]
KVPut(kv, k, v) == [x \in (DOMAIN kv) \cup {k} |-> IF x = k THEN v ELSE kv[x]]
KVGet(kv, k) == IF k \in DOMAIN kv THEN Some(kv[k]) ELSE None
\* kv overlaid with every entry of edits
KVPutAll(kv, edits) == [x \in (DOMAIN kv) \cup (DOMAIN edits) |-> IF x \in DOMAIN edits THEN edits[x] ELSE kv[x]]

(***************************************************************************)
(* MarfedKV: the main store (marf) and the side store (side).  marf and    *)
(* side hold what committed blocks wrote; marf_tip and side_tx are the     *)
(* view of the block that is open (equal to the committed content when no  *)
(* block is open).  Block hashes are not modelled: every block opened      *)
(* extends the last committed one.                                         *)
(***************************************************************************)
MarfedKV_temporary == [marf |-> EmptyKV, side |-> EmptyKV, marf_tip |-> EmptyKV, side_tx |-> EmptyKV]
MarfedKV_begin(s) == [s EXCEPT !.marf_tip = s.marf, !.side_tx = s.side]
MarfedKV_rollback(s) == [s EXCEPT !.marf_tip = s.marf, !.side_tx = s.side]
MarfedKV_test_commit(s) == [s EXCEPT !.marf = s.marf_tip, !.side = s.side_tx]
MarfedKV_commit_to(s) == [s EXCEPT !.marf = s.marf_tip, !.side = s.side_tx]
MarfedKV_commit_for_move(s) == [s EXCEPT !.marf = s.marf_tip, !.side = s.side_tx]
MarfedKV_put_all(s, edits) == [s EXCEPT !.marf_tip = KVPutAll(@, edits), !.side_tx = KVPutAll(@, edits)]
MarfedKV_get(s, k) == KVGet(s.marf_tip, k)

(***************************************************************************)
(* ClarityDatabase / AnalysisDatabase: a stack of pending edits over the   *)
(* store.  begin pushes an empty edit log; roll_back pops it; commit pops  *)
(* it and either merges it into the enclosing log or, at the outermost     *)
(* level, writes it to the store.                                          *)
(***************************************************************************)
ClarityDatabase_new(store) == [store |-> store, stack |-> <<>>]
AnalysisDatabase_new(store) == [store |-> store, stack |-> <<>>]
db_depth(db) == Len(db.stack)
db_begin(db) == [db EXCEPT !.stack = Append(@, EmptyKV)]
db_roll_back(db) == [db EXCEPT !.stack = SubSeq(@, 1, Len(@) - 1)]
db_commit(db) ==
    LET n == Len(db.stack)
        top == db.stack[n]
    IN  IF n = 1
        THEN [store |-> MarfedKV_put_all(db.store, top), stack |-> <<>>]
        ELSE [db EXCEPT !.stack = [i \in 1..(n - 1) |-> IF i = n - 1 THEN KVPutAll(db.stack[i], top) ELSE db.stack[i]]]
db_put(db, k, v) == [db EXCEPT !.stack[Len(db.stack)] = KVPut(@, k, v)]
db_put_all(db, edits) == [db EXCEPT !.stack[Len(db.stack)] = KVPutAll(@, edits)]
RECURSIVE db_lookup(_, _, _)
db_lookup(db, k, n) ==
    IF n = 0 THEN MarfedKV_get(db.store, k)
    ELSE IF k \in DOMAIN db.stack[n] THEN Some(db.stack[n][k])
    ELSE db_lookup(db, k, n - 1)
db_get(db, k) == db_lookup(db, k, Len(db.stack))
\* the writes the innermost open transaction holds
db_writes(db) == db.stack[Len(db.stack)]

(***************************************************************************)
(* ExecutionCost and LimitedCostTracker.  The model keeps the runtime      *)
(* dimension of the cost vector.                                           *)
(***************************************************************************)
ExecutionCost(n) == [runtime |-> n]
ExecutionCost_max_value == ExecutionCost(U64Max)
LimitedCostTracker_new(limit) == [total |-> ExecutionCost(0), limit |-> limit]
LimitedCostTracker_new_max_limit == LimitedCostTracker_new(ExecutionCost_max_value)
\* Charge c: overflow of the counter is CostOverflow, a total beyond the
\* limit is CostBalanceExceeded(total, limit).  Returns the tracker and
\* Option<error>.
add_cost(t, c) ==
    IF t.total.runtime + c > U64Max
    THEN [cost_track |-> t, err |-> Some(<<"CostOverflow">>)]
    ELSE LET t2 == [t EXCEPT !.total = ExecutionCost(t.total.runtime + c)]
         IN  IF t2.total.runtime > t2.limit.runtime
             THEN [cost_track |-> t2, err |-> Some(<<"CostBalanceExceeded", t2.total, t2.limit>>)]
             ELSE [cost_track |-> t2, err |-> None]

(***************************************************************************)
(* Error conversions into the block connection's Error.                    *)
(***************************************************************************)
From_CheckError(e) == <<"Analysis", e>>
From_ParseError(e) == <<"Parse", e>>
\* From<InterpreterError> without the promotion of cost failures
From_InterpreterError_unpromoted(e) == <<"Interpreter", e>>
From_InterpreterError(e) ==
    IF e[1] = "Unchecked" /\ e[2][1] = "CostBalanceExceeded" THEN <<"CostError", e[2][2], e[2][3]>>
    ELSE IF e[1] = "Unchecked" /\ e[2][1] = "CostOverflow" THEN <<"CostError", ExecutionCost_max_value, ExecutionCost_max_value>>
    ELSE <<"Interpreter", e>>

(***************************************************************************)
(* build_ast: charge AST_PARSE on the source length, parse, then the AST   *)
(* passes.  c is the cost the metered steps charge.  The tracker is        *)
(* borrowed, so it is handed back on every path.                           *)
(***************************************************************************)
\* What is wrong with a source text: the steps it fails at.
SourceDefects(source_code) ==
    CASE source_code = "src_unparsable" -> {"parse"}
      [] source_code = "src_too_deep" -> {"StackDepthChecker"}
      [] source_code = "src_too_many_expressions" -> {"ExpressionIdentifier"}
      [] source_code = "src_circular" -> {"DefinitionSorter"}
      [] source_code = "src_unknown_trait" -> {"TraitsResolver"}
      [] source_code = "src_unknown_trait_reference" -> {"SugarExpander"}
      [] source_code = "src_too_deep_circular" -> {"StackDepthChecker", "DefinitionSorter"}
      [] source_code = "src_circular_unknown_trait" -> {"DefinitionSorter", "TraitsResolver", "SugarExpander"}
      [] source_code = "src_writes_in_read_only" -> {"ReadOnlyChecker"}
      [] source_code = "src_illtyped" -> {"TypeChecker"}
      [] source_code = "src_bad_trait_impl" -> {"TraitChecker"}
      [] source_code = "src_illtyped_writes_in_read_only" -> {"ReadOnlyChecker", "TypeChecker"}
      [] source_code = "src_illtyped_bad_trait_impl" -> {"TypeChecker", "TraitChecker"}
      [] OTHER -> {}
PassError(pass) ==
    CASE pass = "StackDepthChecker" -> <<"ExpressionStackDepthTooDeep">>
      [] pass = "ExpressionIdentifier" -> <<"TooManyExpressions">>
      [] pass = "DefinitionSorter" -> <<"CircularReference">>
      [] pass = "TraitsResolver" -> <<"TraitReferenceUnknown", "use-trait">>
      [] pass = "SugarExpander" -> <<"TraitReferenceUnknown", "reference">>
      [] pass = "ReadOnlyChecker" -> <<"WriteAttemptedInReadOnly">>
      [] pass = "TypeChecker" -> <<"TypeError">>
      [] pass = "TraitChecker" -> <<"BadTraitImplementation">>

parser_parse(source_code) ==
    IF "parse" \in SourceDefects(source_code) THEN Err(<<"ClosingParenthesisUnexpected">>) ELSE Ok(source_code)
\* one pass over the ContractAST; DefinitionSorter is the metered one
ast_run_pass(pass, source_code, cost_track, c_sort) ==
    LET a == add_cost(cost_track, IF pass = "DefinitionSorter" THEN c_sort ELSE 0)
    IN  IF a.err # None THEN [cost_track |-> a.cost_track, ret |-> Err(a.err[1])]
        ELSE IF pass \in SourceDefects(source_code) THEN [cost_track |-> a.cost_track, ret |-> Err(PassError(pass))]
        ELSE [cost_track |-> a.cost_track, ret |-> Ok(<<>>)]
\* the passes from the i-th on, each one only when those before it succeeded
RECURSIVE ast_run_passes(_, _, _, _, _, _)
ast_run_passes(passes, i, source_code, cost_track, c_sort, steps) ==
    IF i > Len(passes) THEN [cost_track |-> cost_track, steps |-> steps, ret |-> Ok(<<>>)]
    ELSE LET r == ast_run_pass(passes[i], source_code, cost_track, c_sort)
         IN  IF IsErr(r.ret)
             THEN [cost_track |-> r.cost_track, steps |-> Append(steps, passes[i]), ret |-> r.ret]
             ELSE ast_run_passes(passes, i + 1, source_code, r.cost_track, c_sort, Append(steps, passes[i]))
\* build_ast with the given passes: steps lists the steps that ran
build_ast_with(passes, contract_identifier, source_code, cost_track, c, c_sort) ==
    LET a == add_cost(cost_track, c)
        done == ast_run_passes(passes, 1, source_code, a.cost_track, c_sort, <<"AST_PARSE", "parse">>)
    IN  IF a.err # None
        THEN [cost_track |-> a.cost_track, steps |-> <<"AST_PARSE">>, ret |-> Err(a.err[1])]
        ELSE IF IsErr(parser_parse(source_code))
        THEN [cost_track |-> a.cost_track, steps |-> <<"AST_PARSE", "parse">>, ret |-> parser_parse(source_code)]
        ELSE IF IsErr(done.ret) THEN done
        ELSE [cost_track |-> done.cost_track, steps |-> done.steps,
              ret |-> Ok(<<contract_identifier, source_code>>)]
\* build_ast that sorts the definitions before it checks the depth
build_ast_sorter_first(contract_identifier, source_code, cost_track, c, c_sort) ==
    build_ast_with(<<"DefinitionSorter", "StackDepthChecker", "ExpressionIdentifier",
                     "TraitsResolver", "SugarExpander">>,
                   contract_identifier, source_code, cost_track, c, c_sort)
build_ast(contract_identifier, source_code, cost_track, c, c_sort) ==
    build_ast_with(<<"StackDepthChecker", "ExpressionIdentifier", "DefinitionSorter",
                     "TraitsResolver", "SugarExpander">>,
                   contract_identifier, source_code, cost_track, c, c_sort)

(***************************************************************************)
(* The analysis passes.  The type checker is metered, rejects an ill-typed *)
(* source, and resolves contract-call? through the analysis db.            *)
(***************************************************************************)
AnalysisDatabase_insert_contract(db, id, analysis) ==
    IF db_get(db, AnalysisKey(id)) # None
    THEN [db |-> db, ret |-> Err(<<"ContractAlreadyExists", id>>)]
    ELSE [db |-> db_put(db, AnalysisKey(id), analysis), ret |-> Ok(<<>>)]
ReadOnlyChecker_run_pass(source_code, db) ==
    IF "ReadOnlyChecker" \in SourceDefects(source_code) THEN Err(PassError("ReadOnlyChecker")) ELSE Ok(<<>>)
TypeChecker_run_pass(source_code, db, cost_track, c) ==
    LET a == add_cost(cost_track, c)
    IN  IF a.err # None THEN [cost_track |-> a.cost_track, ret |-> Err(a.err[1])]
        ELSE IF "TypeChecker" \in SourceDefects(source_code)
        THEN [cost_track |-> a.cost_track, ret |-> Err(PassError("TypeChecker"))]
        ELSE IF source_code = "src_B" /\ db_get(db, AnalysisKey("A")) = None
             THEN [cost_track |-> a.cost_track, ret |-> Err(<<"NoSuchContract", "A">>)]
        ELSE [cost_track |-> a.cost_track, ret |-> Ok(<<>>)]
TraitChecker_run_pass(source_code, db) ==
    IF "TraitChecker" \in SourceDefects(source_code) THEN Err(PassError("TraitChecker")) ELSE Ok(<<>>)

(***************************************************************************)
(* run_analysis: inside one analysis-db transaction, run the passes and    *)
(* insert the contract when save_contract is set.  The tracker is moved    *)
(* in: it comes back inside the ContractAnalysis on success and is dropped *)
(* with it on failure (cost_track = None).  steps lists the steps that     *)
(* ran.                                                                    *)
(***************************************************************************)
\* run_analysis that inserts the contract before the passes run, and keeps it
run_analysis_inserts_first(contract_identifier, source_code, analysis_db, save_contract, cost_tracker, c) ==
    LET db0 == db_begin(analysis_db)
        ins == AnalysisDatabase_insert_contract(db0, contract_identifier, source_code)
        db1 == IF save_contract /\ IsOk(ins.ret) THEN ins.db ELSE db0
        ro == ReadOnlyChecker_run_pass(source_code, db1)
        tc == TypeChecker_run_pass(source_code, db1, cost_tracker, c)
        tr == TraitChecker_run_pass(source_code, db1)
        Failed(steps, ret) ==
            [db |-> db_commit(db1), cost_track |-> None, steps |-> steps,
             tx |-> <<"begin", "commit">>, ret |-> ret]
    IN  IF save_contract /\ IsErr(ins.ret) THEN Failed(<<"insert_contract">>, ins.ret)
        ELSE IF IsErr(ro) THEN Failed(<<"insert_contract", "ReadOnlyChecker">>, ro)
        ELSE IF IsErr(tc.ret) THEN Failed(<<"insert_contract", "ReadOnlyChecker", "TypeChecker">>, tc.ret)
        ELSE IF IsErr(tr)
        THEN Failed(<<"insert_contract", "ReadOnlyChecker", "TypeChecker", "TraitChecker">>, tr)
        ELSE [db |-> db_commit(db1),
              cost_track |-> Some(tc.cost_track),
              steps |-> <<"insert_contract", "ReadOnlyChecker", "TypeChecker", "TraitChecker">>,
              tx |-> <<"begin", "commit">>,
              ret |-> Ok(<<contract_identifier, source_code>>)]
run_analysis(contract_identifier, source_code, analysis_db, save_contract, cost_tracker, c) ==
    LET db1 == db_begin(analysis_db)
        ro == ReadOnlyChecker_run_pass(source_code, db1)
        tc == TypeChecker_run_pass(source_code, db1, cost_tracker, c)
        tr == TraitChecker_run_pass(source_code, db1)
        ins == AnalysisDatabase_insert_contract(db1, contract_identifier, source_code)
        Failed(steps, ret) ==
            [db |-> db_roll_back(db1), cost_track |-> None, steps |-> steps,
             tx |-> <<"begin", "roll_back">>, ret |-> ret]
    IN  IF IsErr(ro) THEN Failed(<<"ReadOnlyChecker">>, ro)
        ELSE IF IsErr(tc.ret) THEN Failed(<<"ReadOnlyChecker", "TypeChecker">>, tc.ret)
        ELSE IF IsErr(tr) THEN Failed(<<"ReadOnlyChecker", "TypeChecker", "TraitChecker">>, tr)
        ELSE IF save_contract /\ IsErr(ins.ret)
        THEN [db |-> db_roll_back(ins.db), cost_track |-> None,
              steps |-> <<"ReadOnlyChecker", "TypeChecker", "TraitChecker", "insert_contract">>,
              tx |-> <<"begin", "roll_back">>, ret |-> ins.ret]
        ELSE [db |-> db_commit(IF save_contract THEN ins.db ELSE db1),
              cost_track |-> Some(tc.cost_track),
              steps |-> <<"ReadOnlyChecker", "TypeChecker", "TraitChecker">>
                          \o (IF save_contract THEN <<"insert_contract">> ELSE <<>>),
              tx |-> <<"begin", "commit">>,
              ret |-> Ok(<<contract_identifier, source_code>>)]

(***************************************************************************)
(* The interpreter, as the block connection drives it.  A call describes   *)
(* the closure handed to with_abort_callback.  c1 is charged before the    *)
(* first write and c2 after the last one, so a cost failure can strike     *)
(* with writes pending.                                                    *)
(***************************************************************************)
okay(v) == <<"okay", v>>
CostFailure(a) == Err(<<"Unchecked", a.err[1]>>)
execute_transaction(db, cost_track, contract, fn, x, y, c1, c2) ==
    LET a1 == add_cost(cost_track, c1)
        db2 == db_put(db, VarKey(contract, "bar"), x \div y)
        a2 == add_cost(a1.cost_track, c2)
    IN  IF db_get(db, ContractKey(contract)) = None
        THEN [db |-> db, cost_track |-> cost_track, ret |-> Err(<<"Unchecked", <<"NoSuchContract", contract>>>>)]
        ELSE IF contract # "A"
        THEN [db |-> db, cost_track |-> cost_track, ret |-> Err(<<"Unchecked", <<"UndefinedFunction", fn>>>>)]
        ELSE IF a1.err # None
        THEN [db |-> db, cost_track |-> a1.cost_track, ret |-> CostFailure(a1)]
        ELSE IF fn = "get-bar"
        THEN [db |-> db, cost_track |-> a1.cost_track, ret |-> Ok(okay(db_get(db, VarKey(contract, "bar"))[1]))]
        ELSE IF y = 0
        THEN [db |-> db, cost_track |-> a1.cost_track, ret |-> Err(<<"Runtime", "DivisionByZero">>)]
        ELSE IF a2.err # None
        THEN [db |-> db2, cost_track |-> a2.cost_track, ret |-> CostFailure(a2)]
        ELSE [db |-> db2, cost_track |-> a2.cost_track, ret |-> Ok(okay(x \div y))]
initialize_contract_from_ast(db, cost_track, contract, source_code, c1, c2) ==
    LET a1 == add_cost(cost_track, c1)
        db2 == db_put(db, ContractKey(contract), source_code)
        db3 == IF source_code = "src_A" THEN db_put(db2, VarKey(contract, "bar"), 0) ELSE db2
        a2 == add_cost(a1.cost_track, c2)
    IN  IF db_get(db, ContractKey(contract)) # None
        THEN [db |-> db, cost_track |-> cost_track, ret |-> Err(<<"Unchecked", <<"ContractAlreadyExists", contract>>>>)]
        ELSE IF a1.err # None
        THEN [db |-> db, cost_track |-> a1.cost_track, ret |-> CostFailure(a1)]
        ELSE IF a2.err # None
        THEN [db |-> db3, cost_track |-> a2.cost_track, ret |-> CostFailure(a2)]
        ELSE [db |-> db3, cost_track |-> a2.cost_track, ret |-> Ok(<<>>)]
\* The read-only evaluation of a snippet in the context of a contract: it
\* runs in a transaction of its own, which is rolled back whatever the
\* snippet did.
OwnedEnvironment_eval_read_only(db, cost_track, contract, snippet, c) ==
    LET a == add_cost(cost_track, c)
        db1 == db_begin(db)
        db2 == IF snippet = "(set-bar 1 1)" THEN db_put(db1, VarKey(contract, "bar"), 1) ELSE db1
    IN  IF db_get(db, ContractKey(contract)) = None
        THEN [db |-> db, cost_track |-> cost_track, ret |-> Err(<<"Unchecked", <<"NoSuchContract", contract>>>>)]
        ELSE IF a.err # None
        THEN [db |-> db, cost_track |-> a.cost_track, ret |-> CostFailure(a)]
        ELSE IF snippet = "(set-bar 1 0)"
        THEN [db |-> db_roll_back(db1), cost_track |-> a.cost_track, ret |-> Err(<<"Runtime", "DivisionByZero">>)]
        ELSE [db |-> db_roll_back(db2), cost_track |-> a.cost_track,
              ret |-> Ok(IF snippet = "(get-bar)" THEN okay(db_get(db, VarKey(contract, "bar"))[1]) ELSE okay(1))]
map_err(r) == IF IsErr(r.ret) THEN [r EXCEPT !.ret = Err(From_InterpreterError(r.ret[2]))] ELSE r
to_do(call, db, cost_track) ==
    IF call.kind = "execute_transaction"
    THEN map_err(execute_transaction(db, cost_track, call.contract, call.fn, call.x, call.y, call.c1, call.c2))
    ELSE IF call.kind = "eval_read_only"
    THEN map_err(OwnedEnvironment_eval_read_only(db, cost_track, call.contract, call.source, call.c1))
    ELSE map_err(initialize_contract_from_ast(db, cost_track, call.contract, call.source, call.c1, call.c2))

(***************************************************************************)
(* State.                                                                  *)
(*   instance   the ClarityInstance: [datastore : Option<MarfedKV>]        *)
(*   destroyed  the instance was consumed by destroy                       *)
(*   conn       Option<ClarityBlockConnection>: the live connection,       *)
(*              [datastore : MarfedKV, cost_track : Option<tracker>,       *)
(*               budget : the limit the block was opened with]             *)
(*   discarded  history: some connection was dropped without commit or     *)
(*              rollback                                                   *)
(*   begun      history: the store as it was handed to begin_block, kept   *)
(*              while that block is open and after it was rolled back      *)
(*   last       the last call: its name, arguments and outcome; for a call *)
(*              that runs a nested transaction, the writes the transaction *)
(*              held when it was closed; for a commit or rollback of the   *)
(*              block, the main-store view of the block being closed       *)
(*                                                                         *)
(* The parser, the lexer and the Value constructors are checked under      *)
(* specifications of their own (SpecParser, SpecLexer, SpecValues); their  *)
(* state is:                                                               *)
(*   fed           history: the lex items parse_lexed has consumed         *)
(*   parse_stack   parse_lexed's stack of open frames                      *)
(*   output_list   parse_lexed's list of finished top-level nodes          *)
(*   parse_result  Option<ParseResult>: what parse_lexed returned          *)
(*   input         the source text handed to lex / parse                   *)
(*   lexed         Option<ParseResult>: what lex(input) returned           *)
(*   parsed        Option<ParseResult>: what parse(input) returned         *)
(*   current       the Value at hand                                       *)
(*   constructed   the last constructor call and what it returned          *)
(*   spent         history, kept under SpecBlocks only: what the tracker   *)
(*                 of the block that was closed last had spent             *)
(* Each specification leaves the state of the others at rest.              *)
(***************************************************************************)
VARIABLES instance, destroyed, conn, discarded, begun, last,
          fed, parse_stack, output_list, parse_result,
          input, lexed, parsed,
          current, constructed,
          nesting, env, active, resp, applied, returned,
          analysis_store, ran,
          checked,
          spent

vars == <<instance, destroyed, conn, discarded, begun, last>>
parser_vars == <<fed, parse_stack, output_list, parse_result>>
lexer_vars == <<input, lexed, parsed>>
value_vars == <<current, constructed>>
call_vars == <<nesting, env, active, resp, applied, returned>>
pass_vars == <<analysis_store, ran>>
map_vars == <<checked>>
block_vars == <<spent>>

ParserAtRest == fed = <<>> /\ parse_stack = <<>> /\ output_list = <<>> /\ parse_result = None
LexerAtRest == input = <<>> /\ lexed = None /\ parsed = None
ValuesAtRest == current = None /\ constructed = None
CallsAtRest == nesting = <<>> /\ env = None /\ active = 0 /\ resp = None /\ applied = None /\ returned = None
PassesAtRest == analysis_store = MarfedKV_temporary /\ ran = None
MapsAtRest == checked = None
BlocksAtRest == spent = None

ClarityInstance_new(datastore) == [datastore |-> Some(datastore)]

Call(op, args, ret, writes) ==
    [op |-> op, args |-> args, ret |-> ret, writes |-> writes, tx |-> <<>>, called_back |-> <<>>]

ConnectionAtRest ==
    /\ instance = ClarityInstance_new(MarfedKV_temporary)
    /\ destroyed = FALSE
    /\ conn = None
    /\ discarded = FALSE
    /\ begun = None
    /\ last = Call("new", <<>>, Ok(<<>>), EmptyKV)

Init == ConnectionAtRest /\ ParserAtRest /\ LexerAtRest /\ ValuesAtRest /\ CallsAtRest /\ PassesAtRest /\ MapsAtRest /\ BlocksAtRest

(***************************************************************************)
(* ClarityInstance operations.  Each returns the instance's datastore      *)
(* field as the call leaves it, the connection it yields and the outcome.  *)
(***************************************************************************)
\* begin_block that reads the store without taking it out of the instance
begin_block_keeps_store(self) ==
    IF self.datastore = None
    THEN [datastore |-> None, conn |-> None,
          ret |-> Panic("FAIL: use of begin_block while prior block neither committed nor rolled back.")]
    ELSE [datastore |-> self.datastore,
          conn |-> Some([datastore |-> MarfedKV_begin(self.datastore[1]),
                         cost_track |-> Some(LimitedCostTracker_new_max_limit),
                         budget |-> ExecutionCost_max_value]),
          ret |-> Ok(<<>>)]
begin_block(self) ==
    IF self.datastore = None
    THEN [datastore |-> None, conn |-> None,
          ret |-> Panic("FAIL: use of begin_block while prior block neither committed nor rolled back.")]
    ELSE [datastore |-> None,
          conn |-> Some([datastore |-> MarfedKV_begin(self.datastore[1]),
                         cost_track |-> Some(LimitedCostTracker_new_max_limit),
                         budget |-> ExecutionCost_max_value]),
          ret |-> Ok(<<>>)]
\* begin_block_with_limit that falls back to a fresh store instead of panicking
begin_block_with_limit_or_default(self, limit) ==
    [datastore |-> None,
     conn |-> Some([datastore |-> MarfedKV_begin(IF self.datastore = None THEN MarfedKV_temporary ELSE self.datastore[1]),
                    cost_track |-> Some(LimitedCostTracker_new(limit)),
                    budget |-> limit]),
     ret |-> Ok(<<>>)]
\* begin_block_with_limit that opens the block with the maximum limit
begin_block_with_limit_unlimited(self, limit) == begin_block(self)
begin_block_with_limit(self, limit) ==
    IF self.datastore = None
    THEN [datastore |-> None, conn |-> None,
          ret |-> Panic("FAIL: use of begin_block while prior block neither committed nor rolled back.")]
    ELSE [datastore |-> None,
          conn |-> Some([datastore |-> MarfedKV_begin(self.datastore[1]),
                         cost_track |-> Some(LimitedCostTracker_new(limit)),
                         budget |-> limit]),
          ret |-> Ok(<<>>)]
destroy(self) ==
    IF self.datastore = None
    THEN Panic("FAIL: attempt to recover database connection from clarity instance which is still open")
    ELSE Ok(self.datastore[1])

(***************************************************************************)
(* ClarityBlockConnection operations that consume the connection.  Each    *)
(* returns the parent's datastore field as the call leaves it and the      *)
(* outcome; cost_track.unwrap() panics on None after the store went back.  *)
(***************************************************************************)
unwrap_cost_track(self) ==
    IF self.cost_track = None THEN Panic("called Option::unwrap on a None value") ELSE Ok(self.cost_track[1])
\* rollback_block that commits the block instead of rolling it back
rollback_block_commits(self) ==
    [parent_datastore |-> Some(MarfedKV_test_commit(self.datastore)), ret |-> Ok(<<>>)]
rollback_block(self) ==
    [parent_datastore |-> Some(MarfedKV_rollback(self.datastore)), ret |-> Ok(<<>>)]
\* commit_block that hands the store back without committing the block
commit_block_discards(self) ==
    [parent_datastore |-> Some(MarfedKV_rollback(self.datastore)), ret |-> unwrap_cost_track(self)]
commit_block(self) ==
    [parent_datastore |-> Some(MarfedKV_test_commit(self.datastore)), ret |-> unwrap_cost_track(self)]
\* commit_to_block that does not hand the store back to the parent
commit_to_block_keeps_store(self) ==
    [parent_datastore |-> None, ret |-> unwrap_cost_track(self)]
commit_to_block(self) ==
    [parent_datastore |-> Some(MarfedKV_commit_to(self.datastore)), ret |-> unwrap_cost_track(self)]
commit_block_will_move(self) ==
    [parent_datastore |-> Some(MarfedKV_commit_for_move(self.datastore)), ret |-> unwrap_cost_track(self)]

(***************************************************************************)
(* ClarityBlockConnection operations on an open connection.  Each returns  *)
(* the connection as the call leaves it and the outcome.                   *)
(***************************************************************************)
analyze_smart_contract(self, identifier, contract_content, c1, c2) ==
    IF self.cost_track = None
    THEN [self |-> self, tx |-> <<>>, ret |-> Panic("Failed to get ownership of cost tracker")]
    ELSE LET ast == build_ast(identifier, contract_content, self.cost_track[1], c1, 0)
             an == run_analysis(identifier, contract_content, AnalysisDatabase_new(self.datastore),
                                FALSE, ast.cost_track, c2)
         IN  IF IsErr(ast.ret)
             THEN [self |-> [self EXCEPT !.cost_track = Some(ast.cost_track)], tx |-> <<>>,
                   ret |-> Err(From_ParseError(ast.ret[2]))]
             ELSE IF IsErr(an.ret)
             THEN [self |-> [self EXCEPT !.cost_track = None, !.datastore = an.db.store], tx |-> an.tx,
                   ret |-> Err(From_CheckError(an.ret[2]))]
             ELSE [self |-> [self EXCEPT !.cost_track = an.cost_track, !.datastore = an.db.store], tx |-> an.tx,
                   ret |-> an.ret]

\* What abort_call_back(&asset_map, &mut db) finds when it is invoked: the
\* connection's cost tracker, the database's open transactions and the writes
\* pending in the innermost one.
CalledBack(self, db) == [cost_track |-> self.cost_track, depth |-> db_depth(db), writes |-> db_writes(db)]
\* with_abort_callback that commits the nested transaction of a failed execution
with_abort_callback_commits_on_error(self, call, abort_call_back) ==
    LET db == db_begin(ClarityDatabase_new(self.datastore))
        r == to_do(call, db, self.cost_track[1])
        self2 == [self EXCEPT !.cost_track = Some(r.cost_track)]
    IN  IF self.cost_track = None
        THEN [self |-> self, writes |-> EmptyKV, tx |-> <<"begin">>, called_back |-> <<>>,
              ret |-> Panic("Failed to get ownership of cost tracker in ClarityBlockConnection")]
        ELSE IF IsOk(r.ret) /\ abort_call_back
        THEN [self |-> [self2 EXCEPT !.datastore = db_roll_back(r.db).store], writes |-> db_writes(r.db),
              tx |-> <<"begin", "roll_back">>, called_back |-> <<CalledBack(self2, r.db)>>, ret |-> r.ret]
        ELSE [self |-> [self2 EXCEPT !.datastore = db_commit(r.db).store], writes |-> db_writes(r.db),
              tx |-> <<"begin", "commit">>,
              called_back |-> (IF IsOk(r.ret) THEN <<CalledBack(self2, r.db)>> ELSE <<>>), ret |-> r.ret]
\* with_abort_callback that reads the callback's answer the other way round
with_abort_callback_inverted(self, call, abort_call_back) ==
    LET db == db_begin(ClarityDatabase_new(self.datastore))
        r == to_do(call, db, self.cost_track[1])
        self2 == [self EXCEPT !.cost_track = Some(r.cost_track)]
    IN  IF self.cost_track = None
        THEN [self |-> self, writes |-> EmptyKV, tx |-> <<"begin">>, called_back |-> <<>>,
              ret |-> Panic("Failed to get ownership of cost tracker in ClarityBlockConnection")]
        ELSE IF IsOk(r.ret) /\ abort_call_back
        THEN [self |-> [self2 EXCEPT !.datastore = db_commit(r.db).store], writes |-> db_writes(r.db),
              tx |-> <<"begin", "commit">>, called_back |-> <<CalledBack(self2, r.db)>>, ret |-> r.ret]
        ELSE [self |-> [self2 EXCEPT !.datastore = db_roll_back(r.db).store], writes |-> db_writes(r.db),
              tx |-> <<"begin", "roll_back">>,
              called_back |-> (IF IsOk(r.ret) THEN <<CalledBack(self2, r.db)>> ELSE <<>>), ret |-> r.ret]
Closed(self) == [cost_track |-> self.cost_track, depth |-> 0, writes |-> EmptyKV]
\* with_abort_callback that asks the callback after it closed the transaction
\* and whatever the execution returned
with_abort_callback_closes_first(self, call, abort_call_back) ==
    LET db == db_begin(ClarityDatabase_new(self.datastore))
        r == to_do(call, db, self.cost_track[1])
        self2 == [self EXCEPT !.cost_track = Some(r.cost_track)]
    IN  IF self.cost_track = None
        THEN [self |-> self, writes |-> EmptyKV, tx |-> <<"begin">>, called_back |-> <<>>,
              ret |-> Panic("Failed to get ownership of cost tracker in ClarityBlockConnection")]
        ELSE IF IsOk(r.ret) /\ ~abort_call_back
        THEN [self |-> [self2 EXCEPT !.datastore = db_commit(r.db).store], writes |-> db_writes(r.db),
              tx |-> <<"begin", "commit">>, called_back |-> <<Closed(self2)>>, ret |-> r.ret]
        ELSE [self |-> [self2 EXCEPT !.datastore = db_roll_back(r.db).store], writes |-> db_writes(r.db),
              tx |-> <<"begin", "roll_back">>, called_back |-> <<Closed(self2)>>,
              ret |-> r.ret]
with_abort_callback(self, call, abort_call_back) ==
    LET db == db_begin(ClarityDatabase_new(self.datastore))
        r == to_do(call, db, self.cost_track[1])
        self2 == [self EXCEPT !.cost_track = Some(r.cost_track)]
    IN  IF self.cost_track = None
        THEN [self |-> self, writes |-> EmptyKV, tx |-> <<"begin">>, called_back |-> <<>>,
              ret |-> Panic("Failed to get ownership of cost tracker in ClarityBlockConnection")]
        ELSE IF IsOk(r.ret)
        THEN IF abort_call_back
             THEN [self |-> [self2 EXCEPT !.datastore = db_roll_back(r.db).store], writes |-> db_writes(r.db),
                   tx |-> <<"begin", "roll_back">>, called_back |-> <<CalledBack(self2, r.db)>>, ret |-> r.ret]
             ELSE [self |-> [self2 EXCEPT !.datastore = db_commit(r.db).store], writes |-> db_writes(r.db),
                   tx |-> <<"begin", "commit">>, called_back |-> <<CalledBack(self2, r.db)>>, ret |-> r.ret]
        ELSE [self |-> [self2 EXCEPT !.datastore = db_roll_back(r.db).store], writes |-> db_writes(r.db),
              tx |-> <<"begin", "roll_back">>, called_back |-> <<>>, ret |-> r.ret]

(***************************************************************************)
(* with_clarity_db and with_clarity_db_readonly.  The closure to_do is     *)
(* described by the writes it makes through the database it is handed and  *)
(* by the result it returns.                                               *)
(***************************************************************************)
\* with_clarity_db that returns the closure's error without closing the transaction
with_clarity_db_unclosed_on_error(self, closure) ==
    LET db == db_put_all(db_begin(ClarityDatabase_new(self.datastore)), closure.writes)
    IN  IF IsOk(closure.ret)
        THEN [self |-> [self EXCEPT !.datastore = db_commit(db).store], writes |-> db_writes(db),
              tx |-> <<"begin", "commit">>, ret |-> closure.ret]
        ELSE [self |-> self, writes |-> db_writes(db), tx |-> <<"begin">>, ret |-> closure.ret]
with_clarity_db(self, closure) ==
    LET db == db_put_all(db_begin(ClarityDatabase_new(self.datastore)), closure.writes)
    IN  IF IsOk(closure.ret)
        THEN [self |-> [self EXCEPT !.datastore = db_commit(db).store], writes |-> db_writes(db),
              tx |-> <<"begin", "commit">>, ret |-> closure.ret]
        ELSE [self |-> [self EXCEPT !.datastore = db_roll_back(db).store], writes |-> db_writes(db),
              tx |-> <<"begin", "roll_back">>, ret |-> closure.ret]
\* with_clarity_db_readonly that closes its transaction as with_clarity_db does
with_clarity_db_readonly_commits(self, closure) == with_clarity_db(self, closure)
with_clarity_db_readonly(self, closure) ==
    LET db == db_put_all(db_begin(ClarityDatabase_new(self.datastore)), closure.writes)
    IN  [self |-> [self EXCEPT !.datastore = db_roll_back(db).store], writes |-> db_writes(db),
         tx |-> <<"begin", "roll_back">>, ret |-> closure.ret]

\* save_analysis that stores the record whether or not the insert was refused
save_analysis_overwrites(self, identifier, contract_analysis) ==
    LET db == db_begin(AnalysisDatabase_new(self.datastore))
        result == AnalysisDatabase_insert_contract(db, identifier, contract_analysis)
        forced == db_put(db, AnalysisKey(identifier), contract_analysis)
    IN  IF IsOk(result.ret)
        THEN [self |-> [self EXCEPT !.datastore = db_commit(result.db).store],
              tx |-> <<"begin", "commit">>, ret |-> Ok(<<>>)]
        ELSE [self |-> [self EXCEPT !.datastore = db_commit(forced).store],
              tx |-> <<"begin", "commit">>, ret |-> result.ret]
save_analysis(self, identifier, contract_analysis) ==
    LET db == db_begin(AnalysisDatabase_new(self.datastore))
        result == AnalysisDatabase_insert_contract(db, identifier, contract_analysis)
    IN  IF IsOk(result.ret)
        THEN [self |-> [self EXCEPT !.datastore = db_commit(result.db).store],
              tx |-> <<"begin", "commit">>, ret |-> Ok(<<>>)]
        ELSE [self |-> [self EXCEPT !.datastore = db_roll_back(result.db).store],
              tx |-> <<"begin", "roll_back">>, ret |-> result.ret]

run_contract_call(self, contract, public_function, x, y, c1, c2, abort_call_back) ==
    with_abort_callback(self,
        [kind |-> "execute_transaction", contract |-> contract, fn |-> public_function,
         x |-> x, y |-> y, c1 |-> c1, c2 |-> c2, source |-> ""],
        abort_call_back)

initialize_smart_contract(self, identifier, contract_str, c1, c2, abort_call_back) ==
    with_abort_callback(self,
        [kind |-> "initialize_contract_from_ast", contract |-> identifier, fn |-> "",
         x |-> 0, y |-> 0, c1 |-> c1, c2 |-> c2, source |-> contract_str],
        abort_call_back)

\* eval_read_only whose abort callback answers true
eval_read_only_aborting(self, contract, code, c) ==
    with_abort_callback(self,
        [kind |-> "eval_read_only", contract |-> contract, fn |-> "",
         x |-> 0, y |-> 0, c1 |-> c, c2 |-> 0, source |-> code],
        TRUE)
eval_read_only(self, contract, code, c) ==
    with_abort_callback(self,
        [kind |-> "eval_read_only", contract |-> contract, fn |-> "",
         x |-> 0, y |-> 0, c1 |-> c, c2 |-> 0, source |-> code],
        FALSE)

(***************************************************************************)
(* Actions: one per call the owner of the instance can make.  begin_block, *)
(* begin_block_with_limit and destroy need the instance unborrowed, so     *)
(* they are callable only while no connection is live; a connection that   *)
(* is dropped (or forgotten) without commit or rollback takes its store    *)
(* with it.                                                                *)
(***************************************************************************)
Limits == {ExecutionCost(n) : n \in 1..U64Max}
\* The contracts the owner deploys and calls; B is only analysed.
Deployed == {"A"}
\* The analysis records saved over one another for a deployed contract:
\* besides that of its source, that of a revision of it.
Revisions == {"src_revised"}
\* The closures handed to with_clarity_db and with_clarity_db_readonly
\* (one only reads, the others set bar and succeed or fail afterwards)
Closures ==
    {[writes |-> EmptyKV, ret |-> Ok(<<>>)],
     [writes |-> KVPut(EmptyKV, VarKey("A", "bar"), 1), ret |-> Ok(<<>>)],
     [writes |-> KVPut(EmptyKV, VarKey("A", "bar"), 1), ret |-> Err(<<"Interpreter", "closure failed">>)]}
\* The snippets evaluated read-only: one reads bar, one sets it, one fails
Snippets == {"(get-bar)", "(set-bar 1 1)", "(set-bar 1 0)"}
\* <<contract, function, x, y>>: get-bar takes no argument, set-bar takes x and y
ContractCalls ==
    {<<id, "get-bar", 0, 0>> : id \in Deployed}
    \cup {<<id, "set-bar", a[1], a[2]>> : id \in Deployed, a \in {<<0, 1>>, <<1, 1>>, <<1, 0>>}}

Call_begin_block ==
    /\ ~destroyed /\ conn = None
    /\ LET r == begin_block(instance)
       IN  /\ instance' = [instance EXCEPT !.datastore = r.datastore]
           /\ conn' = r.conn
           /\ begun' = IF IsOk(r.ret) THEN instance.datastore ELSE begun
           /\ last' = Call("begin_block", <<>>, r.ret, EmptyKV)
    /\ UNCHANGED <<destroyed, discarded, parser_vars, lexer_vars, value_vars, call_vars, pass_vars, map_vars, block_vars>>

Call_begin_block_with_limit ==
    /\ ~destroyed /\ conn = None
    /\ \E limit \in Limits :
         LET r == begin_block_with_limit(instance, limit)
         IN  /\ instance' = [instance EXCEPT !.datastore = r.datastore]
             /\ conn' = r.conn
             /\ begun' = IF IsOk(r.ret) THEN instance.datastore ELSE begun
             /\ last' = Call("begin_block_with_limit", <<limit>>, r.ret, EmptyKV)
    /\ UNCHANGED <<destroyed, discarded, parser_vars, lexer_vars, value_vars, call_vars, pass_vars, map_vars, block_vars>>

Call_destroy ==
    /\ ~destroyed /\ conn = None
    /\ destroyed' = TRUE
    /\ instance' = [instance EXCEPT !.datastore = None]
    /\ begun' = None
    /\ last' = Call("destroy", <<>>, destroy(instance), EmptyKV)
    /\ UNCHANGED <<conn, discarded, parser_vars, lexer_vars, value_vars, call_vars, pass_vars, map_vars, block_vars>>

Drop_connection ==
    /\ conn # None
    /\ conn' = None
    /\ discarded' = TRUE
    /\ begun' = None
    /\ last' = Call("drop", <<>>, Ok(<<>>), EmptyKV)
    /\ UNCHANGED <<instance, destroyed, parser_vars, lexer_vars, value_vars, call_vars, pass_vars, map_vars, block_vars>>

SettleSpent(op, r, spending) ==
    /\ instance' = [instance EXCEPT !.datastore = r.parent_datastore]
    /\ conn' = None
    /\ begun' = IF op = "rollback_block" THEN begun ELSE None
    /\ last' = Call(op, <<>>, r.ret, conn[1].datastore.marf_tip)
    /\ spent' = spending
    /\ UNCHANGED <<destroyed, discarded, parser_vars, lexer_vars, value_vars, call_vars, pass_vars, map_vars>>
Settle(op, r) == SettleSpent(op, r, spent)

Call_rollback_block == conn # None /\ Settle("rollback_block", rollback_block(conn[1]))
Call_commit_block == conn # None /\ Settle("commit_block", commit_block(conn[1]))
Call_commit_to_block == conn # None /\ Settle("commit_to_block", commit_to_block(conn[1]))
Call_commit_block_will_move == conn # None /\ Settle("commit_block_will_move", commit_block_will_move(conn[1]))

OnConnection(op, args, r, writes) ==
    /\ conn' = Some(r.self)
    /\ last' = [Call(op, args, r.ret, writes) EXCEPT !.tx = r.tx]
    /\ UNCHANGED <<instance, destroyed, discarded, begun, parser_vars, lexer_vars, value_vars, call_vars, pass_vars, map_vars, block_vars>>
\* a call that goes through with_abort_callback
OnConnectionCalledBack(op, args, r) ==
    /\ conn' = Some(r.self)
    /\ last' = [Call(op, args, r.ret, r.writes) EXCEPT !.tx = r.tx, !.called_back = r.called_back]
    /\ UNCHANGED <<instance, destroyed, discarded, begun, parser_vars, lexer_vars, value_vars, call_vars, pass_vars, map_vars, block_vars>>

Analyze_among(ids) ==
    /\ conn # None
    /\ \E id \in ids : \E src \in Sources(id) : \E c1, c2 \in Charges :
         OnConnection("analyze_smart_contract", <<id, src>>,
                      analyze_smart_contract(conn[1], id, src, c1, c2), EmptyKV)

Call_analyze_smart_contract == Analyze_among(ContractIds)

Save_among(ids, revisions) ==
    /\ conn # None
    /\ \E id \in ids : \E analysis \in {ValidSource(id)} \cup revisions :
         OnConnection("save_analysis", <<id, analysis>>, save_analysis(conn[1], id, analysis), EmptyKV)

Call_save_analysis == Save_among(ContractIds, {})

Call_initialize_smart_contract ==
    /\ conn # None
    /\ \E id \in Deployed : \E c1, c2 \in Charges : \E abort \in BOOLEAN :
         LET r == initialize_smart_contract(conn[1], id, ValidSource(id), c1, c2, abort)
         IN  OnConnectionCalledBack("initialize_smart_contract", <<id, abort>>, r)

Run_among(calls) ==
    /\ conn # None
    /\ \E in \in calls : \E c1, c2 \in Charges : \E abort \in BOOLEAN :
         LET r == run_contract_call(conn[1], in[1], in[2], in[3], in[4], c1, c2, abort)
         IN  OnConnectionCalledBack("run_contract_call", <<in[1], in[2], abort>>, r)

Call_run_contract_call == Run_among(ContractCalls)

Call_with_clarity_db ==
    /\ conn # None
    /\ \E closure \in Closures :
         LET r == with_clarity_db(conn[1], closure)
         IN  OnConnection("with_clarity_db", <<closure>>, r, r.writes)

Call_with_clarity_db_readonly ==
    /\ conn # None
    /\ \E closure \in Closures :
         LET r == with_clarity_db_readonly(conn[1], closure)
         IN  OnConnection("with_clarity_db_readonly", <<closure>>, r, r.writes)

Call_eval_read_only ==
    /\ conn # None
    /\ \E id \in Deployed : \E code \in Snippets : \E c \in Charges :
         LET r == eval_read_only(conn[1], id, code, c)
         IN  OnConnectionCalledBack("eval_read_only", <<id, code>>, r)

Next ==
    \/ Call_begin_block
    \/ Call_begin_block_with_limit
    \/ Call_destroy
    \/ Drop_connection
    \/ Call_rollback_block
    \/ Call_commit_block
    \/ Call_commit_to_block
    \/ Call_commit_block_will_move
    \/ Call_analyze_smart_contract
    \/ Call_save_analysis
    \/ Call_initialize_smart_contract
    \/ Call_run_contract_call

Spec == Init /\ [][Next]_vars

(***************************************************************************)
(* SpecClosures: the same instance and connection, its owner working on    *)
(* the one contract it deploys: every operation of the connection, the     *)
(* closures of with_clarity_db and with_clarity_db_readonly, read-only     *)
(* evaluation, and analysis records saved over one another.                *)
(***************************************************************************)
\* One call of each function of the deployed contract
DeployedCalls == {<<id, "get-bar", 0, 0>> : id \in Deployed} \cup {<<id, "set-bar", 1, 1>> : id \in Deployed}

Call_analyze_deployed == Analyze_among(Deployed)
Call_save_revision == Save_among(Deployed, Revisions)
Call_run_deployed == Run_among(DeployedCalls)

NextClosures ==
    \/ Call_begin_block
    \/ Call_begin_block_with_limit
    \/ Call_destroy
    \/ Drop_connection
    \/ Call_rollback_block
    \/ Call_commit_block
    \/ Call_commit_to_block
    \/ Call_commit_block_will_move
    \/ Call_analyze_deployed
    \/ Call_save_revision
    \/ Call_initialize_smart_contract
    \/ Call_run_deployed
    \/ Call_with_clarity_db
    \/ Call_with_clarity_db_readonly
    \/ Call_eval_read_only

SpecClosures == Init /\ [][NextClosures]_vars

(***************************************************************************)
(* SpecBlocks: blocks are begun, worked in and closed, and what the        *)
(* tracker of a block had spent when the block was closed is remembered.   *)
(* A connection whose tracker was lost counts as having spent nothing.     *)
(***************************************************************************)
Spending(c) == IF c.cost_track = None THEN Some(0) ELSE Some(c.cost_track[1].total.runtime)
Call_rollback_block_spent ==
    conn # None /\ SettleSpent("rollback_block", rollback_block(conn[1]), Spending(conn[1]))
Call_commit_block_spent ==
    conn # None /\ SettleSpent("commit_block", commit_block(conn[1]), Spending(conn[1]))

NextBlocks ==
    \/ Call_begin_block
    \/ Call_begin_block_with_limit
    \/ Call_rollback_block_spent
    \/ Call_commit_block_spent
    \/ Call_initialize_smart_contract
    \/ Call_run_deployed

block_history_vars == <<instance, destroyed, conn, discarded, begun, last, spent>>
SpecBlocks == Init /\ [][NextBlocks]_block_history_vars

(***************************************************************************)
(* The parser: parse_lexed (src/vm/ast/parser/mod.rs).                     *)
(*                                                                         *)
(* A lex item is [item, length, value]: item is the LexItem variant,       *)
(* length the usize the variant carries (0 when it carries none) and value *)
(* the text it carries.  parse_lexed consumes triples <<item, line, col>>. *)
(* A node is [pre_expr, value, children, span], span being                 *)
(* <<start_line, start_column, end_line, end_column>>.  A frame of the     *)
(* parse stack is [list, line, column, context].                           *)
(***************************************************************************)
LexItem(item, length, value) == [item |-> item, length |-> length, value |-> value]
LeftParen == LexItem("LeftParen", 0, <<>>)
RightParen == LexItem("RightParen", 0, <<>>)
LeftCurly == LexItem("LeftCurly", 0, <<>>)
RightCurly == LexItem("RightCurly", 0, <<>>)
CommaSeparator == LexItem("CommaSeparator", 0, <<>>)
ColonSeparator == LexItem("ColonSeparator", 0, <<>>)
Whitespace == LexItem("Whitespace", 0, <<>>)
Variable(value) == LexItem("Variable", 0, value)
LiteralValue(length, value) == LexItem("LiteralValue", length, value)
TraitReference(length, value) == LexItem("TraitReference", length, value)
SugaredContractIdentifier(length, value) == LexItem("SugaredContractIdentifier", length, value)
SugaredFieldIdentifier(length, value) == LexItem("SugaredFieldIdentifier", length, value)

ParseError(err) == Err(<<err>>)

PreSymbolicExpression(pre_expr, value, children) ==
    [pre_expr |-> pre_expr, value |-> value, children |-> children, span |-> <<0, 0, 0, 0>>]
set_span(e, start_line, start_column, end_line, end_column) ==
    [e EXCEPT !.span = <<start_line, start_column, end_line, end_column>>]

Frame(list, line, column, context) == [list |-> list, line |-> line, column |-> column, context |-> context]

\* The state of the loop: the stack, the output list and Option<error>,
\* Some(e) when the iteration returned Err(e).
Parsing(stack, out, err) == [parse_stack |-> stack, output_list |-> out, err |-> err]

\* match parse_stack.last_mut() { None => output_list.push(e), Some(list) => list.push(e) }
push_expr(stack, out, e) ==
    IF stack = <<>>
    THEN Parsing(stack, Append(out, e), None)
    ELSE Parsing([stack EXCEPT ![Len(stack)].list = Append(@, e)], out, None)

pop(stack) == SubSeq(stack, 1, Len(stack) - 1)

\* LexItem::RightParen with the errors of the two mismatches exchanged
RightParen_item_exchanged(stack, out, line_pos, column_pos) ==
    IF stack = <<>> THEN Parsing(stack, out, Some(<<"ClosingTupleLiteralExpected">>))
    ELSE IF stack[Len(stack)].context = "CollectList"
    THEN push_expr(pop(stack), out,
                   set_span(PreSymbolicExpression("List", <<>>, stack[Len(stack)].list),
                            stack[Len(stack)].line, stack[Len(stack)].column, line_pos, column_pos))
    ELSE Parsing(stack, out, Some(<<"ClosingParenthesisUnexpected">>))
RightParen_item(stack, out, line_pos, column_pos) ==
    IF stack = <<>> THEN Parsing(stack, out, Some(<<"ClosingParenthesisUnexpected">>))
    ELSE IF stack[Len(stack)].context = "CollectList"
    THEN push_expr(pop(stack), out,
                   set_span(PreSymbolicExpression("List", <<>>, stack[Len(stack)].list),
                            stack[Len(stack)].line, stack[Len(stack)].column, line_pos, column_pos))
    ELSE Parsing(stack, out, Some(<<"ClosingTupleLiteralExpected">>))

\* LexItem::RightCurly that names the closer it met instead of the one it wanted
RightCurly_item_names_closer(stack, out, line_pos, column_pos) ==
    IF stack = <<>> THEN Parsing(stack, out, Some(<<"ClosingTupleLiteralUnexpected">>))
    ELSE IF stack[Len(stack)].context = "CollectTuple"
    THEN push_expr(pop(stack), out,
                   set_span(PreSymbolicExpression("Tuple", <<>>, stack[Len(stack)].list),
                            stack[Len(stack)].line, stack[Len(stack)].column, line_pos, column_pos))
    ELSE Parsing(stack, out, Some(<<"ClosingTupleLiteralExpected">>))
RightCurly_item(stack, out, line_pos, column_pos) ==
    IF stack = <<>> THEN Parsing(stack, out, Some(<<"ClosingTupleLiteralUnexpected">>))
    ELSE IF stack[Len(stack)].context = "CollectTuple"
    THEN push_expr(pop(stack), out,
                   set_span(PreSymbolicExpression("Tuple", <<>>, stack[Len(stack)].list),
                            stack[Len(stack)].line, stack[Len(stack)].column, line_pos, column_pos))
    ELSE Parsing(stack, out, Some(<<"ClosingParenthesisExpected">>))

\* LexItem::ColonSeparator that accepts a colon after a value as well
ColonSeparator_item_anywhere(stack, out) ==
    IF stack = <<>> THEN Parsing(stack, out, Some(<<"ColonSeparatorUnexpected">>))
    ELSE IF stack[Len(stack)].context = "CollectTuple"
    THEN Parsing(stack, out, None)
    ELSE Parsing(stack, out, Some(<<"ColonSeparatorUnexpected">>))
ColonSeparator_item(stack, out) ==
    IF stack = <<>> THEN Parsing(stack, out, Some(<<"ColonSeparatorUnexpected">>))
    ELSE IF stack[Len(stack)].context = "CollectTuple"
    THEN IF Len(stack[Len(stack)].list) % 2 = 0
         THEN Parsing(stack, out, Some(<<"ColonSeparatorUnexpected">>))
         ELSE Parsing(stack, out, None)
    ELSE Parsing(stack, out, Some(<<"ColonSeparatorUnexpected">>))

\* LexItem::CommaSeparator that lets a `,` open a tuple
CommaSeparator_item_at_start(stack, out) ==
    IF stack = <<>> THEN Parsing(stack, out, Some(<<"CommaSeparatorUnexpected">>))
    ELSE IF stack[Len(stack)].context = "CollectTuple"
    THEN IF Len(stack[Len(stack)].list) % 2 = 1
         THEN Parsing(stack, out, Some(<<"CommaSeparatorUnexpected">>))
         ELSE Parsing(stack, out, None)
    ELSE Parsing(stack, out, Some(<<"CommaSeparatorUnexpected">>))
CommaSeparator_item(stack, out) ==
    IF stack = <<>> THEN Parsing(stack, out, Some(<<"CommaSeparatorUnexpected">>))
    ELSE IF stack[Len(stack)].context = "CollectTuple"
    THEN IF Len(stack[Len(stack)].list) = 0 \/ Len(stack[Len(stack)].list) % 2 = 1
         THEN Parsing(stack, out, Some(<<"CommaSeparatorUnexpected">>))
         ELSE Parsing(stack, out, None)
    ELSE Parsing(stack, out, Some(<<"CommaSeparatorUnexpected">>))

\* Variable and TraitReference: end_column = column_pos + value.len() - 1
name_item(stack, out, pre_expr, value, line_pos, column_pos) ==
    push_expr(stack, out,
              set_span(PreSymbolicExpression(pre_expr, value, <<>>),
                       line_pos, column_pos, line_pos, column_pos + Len(value) - 1))

\* LiteralValue and the identifiers: end_column = column_pos + length, less
\* one when length > 0
sized_item(stack, out, pre_expr, length, value, line_pos, column_pos) ==
    push_expr(stack, out,
              set_span(PreSymbolicExpression(pre_expr, value, <<>>),
                       line_pos, column_pos, line_pos,
                       IF length > 0 THEN column_pos + length - 1 ELSE column_pos + length))

\* One iteration of `for (item, line_pos, column_pos) in input.drain(..)`.
parse_item(stack, out, item, line_pos, column_pos) ==
    CASE item.item = "LeftParen" -> Parsing(Append(stack, Frame(<<>>, line_pos, column_pos, "CollectList")), out, None)
      [] item.item = "RightParen" -> RightParen_item(stack, out, line_pos, column_pos)
      [] item.item = "LeftCurly" -> Parsing(Append(stack, Frame(<<>>, line_pos, column_pos, "CollectTuple")), out, None)
      [] item.item = "RightCurly" -> RightCurly_item(stack, out, line_pos, column_pos)
      [] item.item = "Variable" -> name_item(stack, out, "Atom", item.value, line_pos, column_pos)
      [] item.item = "LiteralValue" -> sized_item(stack, out, "AtomValue", item.length, item.value, line_pos, column_pos)
      [] item.item = "SugaredContractIdentifier" ->
            sized_item(stack, out, "SugaredContractIdentifier", item.length, item.value, line_pos, column_pos)
      [] item.item = "SugaredFieldIdentifier" ->
            sized_item(stack, out, "SugaredFieldIdentifier", item.length, item.value, line_pos, column_pos)
      [] item.item = "FieldIdentifier" ->
            sized_item(stack, out, "FieldIdentifier", item.length, item.value, line_pos, column_pos)
      [] item.item = "TraitReference" -> name_item(stack, out, "TraitReference", item.value, line_pos, column_pos)
      [] item.item = "ColonSeparator" -> ColonSeparator_item(stack, out)
      [] item.item = "CommaSeparator" -> CommaSeparator_item(stack, out)
      [] item.item = "Whitespace" -> Parsing(stack, out, None)

\* "check unfinished stack" that tells an open tuple from an open list
check_unfinished_stack_by_context(stack, out) ==
    IF Len(stack) > 0
    THEN IF stack[Len(stack)].context = "CollectTuple"
         THEN ParseError("ClosingTupleLiteralExpected")
         ELSE ParseError("ClosingParenthesisExpected")
    ELSE Ok(out)
check_unfinished_stack(stack, out) ==
    IF Len(stack) > 0 THEN ParseError("ClosingParenthesisExpected") ELSE Ok(out)

RECURSIVE parse_items(_, _, _)
parse_items(st, lexed_input, i) ==
    IF i > Len(lexed_input) THEN check_unfinished_stack(st.parse_stack, st.output_list)
    ELSE LET next == parse_item(st.parse_stack, st.output_list, lexed_input[i][1], lexed_input[i][2], lexed_input[i][3])
         IN  IF next.err # None THEN Err(next.err[1]) ELSE parse_items(next, lexed_input, i + 1)
parse_lexed(lexed_input) == parse_items(Parsing(<<>>, <<>>, None), lexed_input, 1)

(***************************************************************************)
(* SpecParser: parse_lexed driven one lex item at a time.  The items are   *)
(* one character wide and stand on line 1, so the k-th item is at column   *)
(* k.  When an iteration returns an error the frames are kept as they were *)
(* when the item arrived.                                                  *)
(***************************************************************************)
MaxItems == 6
Items == {LeftParen, RightParen, LeftCurly, RightCurly, ColonSeparator, CommaSeparator,
          Whitespace, Variable(<<"a">>)}

InitParser == ParserAtRest /\ ConnectionAtRest /\ LexerAtRest /\ ValuesAtRest /\ CallsAtRest /\ PassesAtRest /\ MapsAtRest /\ BlocksAtRest

ParseItem ==
    /\ parse_result = None
    /\ Len(fed) < MaxItems
    /\ \E item \in Items :
         LET next == parse_item(parse_stack, output_list, item, 1, Len(fed) + 1)
         IN  /\ fed' = Append(fed, <<item, 1, Len(fed) + 1>>)
             /\ IF next.err # None
                THEN /\ parse_result' = Some(Err(next.err[1]))
                     /\ UNCHANGED <<parse_stack, output_list>>
                ELSE /\ parse_stack' = next.parse_stack
                     /\ output_list' = next.output_list
                     /\ UNCHANGED parse_result
    /\ UNCHANGED <<vars, lexer_vars, value_vars, call_vars, pass_vars, map_vars, block_vars>>

EndOfInput ==
    /\ parse_result = None
    /\ parse_result' = Some(check_unfinished_stack(parse_stack, output_list))
    /\ UNCHANGED <<fed, parse_stack, output_list, vars, lexer_vars, value_vars, call_vars, pass_vars, map_vars, block_vars>>

NextParser == ParseItem \/ EndOfInput

SpecParser == InitParser /\ [][NextParser]_parser_vars

(***************************************************************************)
(* lex (vm/ast/parser/mod.rs).  A source is a sequence of characters, each *)
(* a one-character string.  munch_index and the line indices are counted   *)
(* from 0 as in the code, so the character at index k is input[k + 1].     *)
(* The matchers are tried in the order of lex_matchers and the first that  *)
(* matches at the head of the slice wins.  The matchers for 0x.., 'true,   *)
(* 'false and the principals that start with ' are left out: every source  *)
(* drawn below is free of the characters 0, x and '.                       *)
(***************************************************************************)
CONTRACT_MIN_NAME_LENGTH == 5
CONTRACT_MAX_NAME_LENGTH == 40
\* vm::representations::MAX_STRING_LEN
MAX_STRING_LEN == 128

digit == {"0", "1", "2", "3", "4", "5", "6", "7", "8", "9"}
lower == {"a", "b", "c", "d", "e", "f", "g", "h", "i", "j", "k", "l", "m",
          "n", "o", "p", "q", "r", "s", "t", "u", "v", "w", "x", "y", "z"}
upper == {"A", "B", "C", "D", "E", "F", "G", "H", "I", "J", "K", "L", "M",
          "N", "O", "P", "Q", "R", "S", "T", "U", "V", "W", "X", "Y", "Z"}
alnum == digit \cup lower \cup upper
\* [[:word:]]
word == alnum \cup {"_"}
\* [ -~] (the grave accent, which no source below holds, is not listed)
printable == word \cup {" ", "!", "\"", "#", "$", "%", "&", "'", "(", ")", "*", "+", ",", "-",
                        ".", "/", ":", ";", "<", "=", ">", "?", "@", "[", "\\", "]", "^",
                        "{", "|", "}", "~"}
\* ([[:word:]]|[-]) and ([[:alnum:]]|[-])
word_or_dash == word \cup {"-"}
alnum_or_dash == alnum \cup {"-"}
\* ([[:word:]]|[-!?+<>=/*])
variable_char == word \cup {"-", "!", "?", "+", "<", ">", "=", "/", "*"}

Min(a, b) == IF a < b THEN a ELSE b
\* how many characters of class stand in a row at s[p], s[p+1], ..
RECURSIVE run(_, _, _)
run(s, p, class) == IF p <= Len(s) /\ s[p] \in class THEN 1 + run(s, p + 1, class) ELSE 0

\* Each matcher gives the length of its match at s[p] (0: no match).
\* "(?P<value>((\\")|([[ -~]&&[^"]]))*)": string_end is the position of the
\* closing quote, trying for each character the escaped quote first, then
\* any printable character but the quote, then the end of the body.
RECURSIVE string_end(_, _)
string_end(s, p) ==
    IF p > Len(s) THEN 0
    ELSE LET escaped == IF s[p] = "\\" /\ p + 1 <= Len(s) /\ s[p + 1] = "\"" THEN string_end(s, p + 2) ELSE 0
             plain == IF s[p] \in printable \ {"\""} THEN string_end(s, p + 1) ELSE 0
         IN  IF escaped # 0 THEN escaped
             ELSE IF plain # 0 THEN plain
             ELSE IF s[p] = "\"" THEN p ELSE 0
match_string(s, p) ==
    IF s[p] = "\"" /\ string_end(s, p + 1) # 0 THEN string_end(s, p + 1) - p + 1 ELSE 0
\* ;;[ -~]*
match_comment(s, p) ==
    IF s[p] = ";" /\ p + 1 <= Len(s) /\ s[p + 1] = ";" THEN 2 + run(s, p + 2, printable) ELSE 0
\* [\n]+ with the other line terminators let in
match_newlines_any_terminator(s, p) == run(s, p, {"\n", "\r", "NEL"})
\* [\n]+
match_newlines(s, p) == run(s, p, {"\n"})
\* [ \t]+
match_blanks(s, p) == run(s, p, {" ", "\t"})
\* <(?P<value>([[:word:]]|[-])+)>
match_trait_reference(s, p) ==
    LET n == run(s, p + 1, word_or_dash)
    IN  IF s[p] = "<" /\ n >= 1 /\ p + 1 + n <= Len(s) /\ s[p + 1 + n] = ">" THEN n + 2 ELSE 0
\* u(?P<value>[[:digit:]]+)
match_uint(s, p) == IF s[p] = "u" /\ run(s, p + 1, digit) >= 1 THEN 1 + run(s, p + 1, digit) ELSE 0
\* (?P<value>-?[[:digit:]]+)
match_int(s, p) ==
    IF s[p] = "-"
    THEN (IF run(s, p + 1, digit) >= 1 THEN 1 + run(s, p + 1, digit) ELSE 0)
    ELSE run(s, p, digit)
\* (\.)([[:alnum:]]|[-]){5,40}
match_sugared_contract(s, p) ==
    LET n == run(s, p + 1, alnum_or_dash)
    IN  IF s[p] = "." /\ n >= CONTRACT_MIN_NAME_LENGTH THEN 1 + Min(n, CONTRACT_MAX_NAME_LENGTH) ELSE 0
\* (\.)([[:alnum:]]|[-]){5,40}(\.)([[:alnum:]]|[-]){1,MAX_STRING_LEN}
match_sugared_field(s, p) ==
    LET n == run(s, p + 1, alnum_or_dash)
        m == run(s, p + n + 2, alnum_or_dash)
    IN  IF /\ s[p] = "." /\ n >= CONTRACT_MIN_NAME_LENGTH /\ n <= CONTRACT_MAX_NAME_LENGTH
           /\ p + n + 1 <= Len(s) /\ s[p + n + 1] = "." /\ m >= 1
        THEN n + 2 + Min(m, MAX_STRING_LEN) ELSE 0
\* (?P<value>([[:word:]]|[-!?+<>=/*])+)
match_variable(s, p) == run(s, p, variable_char)

\* a match: the handler of the matcher, the end of the whole match and the
\* text of the group `value` (empty when the matcher has none)
Match(handler, end, value) == [handler |-> handler, end |-> end, value |-> value]
\* `for matcher in lex_matchers.iter()`: the first matcher that matches the
\* slice s[p..], handler "None" when none does
first_match(s, p) ==
    IF match_string(s, p) > 0
        THEN Match("StringLiteral", match_string(s, p), SubSeq(s, p + 1, p + match_string(s, p) - 2))
    ELSE IF match_comment(s, p) > 0 THEN Match("Whitespace", match_comment(s, p), <<>>)
    ELSE IF match_newlines(s, p) > 0 THEN Match("Whitespace", match_newlines(s, p), <<>>)
    ELSE IF match_blanks(s, p) > 0 THEN Match("Whitespace", match_blanks(s, p), <<>>)
    ELSE IF s[p] = "," THEN Match("Comma", 1, <<>>)
    ELSE IF s[p] = ":" THEN Match("Colon", 1, <<>>)
    ELSE IF s[p] = "(" THEN Match("LParens", 1, <<>>)
    ELSE IF s[p] = ")" THEN Match("RParens", 1, <<>>)
    ELSE IF s[p] = "{" THEN Match("LCurly", 1, <<>>)
    ELSE IF s[p] = "}" THEN Match("RCurly", 1, <<>>)
    ELSE IF match_trait_reference(s, p) > 0
        THEN Match("TraitReferenceLiteral", match_trait_reference(s, p),
                   SubSeq(s, p + 1, p + match_trait_reference(s, p) - 2))
    ELSE IF match_uint(s, p) > 0
        THEN Match("UIntLiteral", match_uint(s, p), SubSeq(s, p + 1, p + match_uint(s, p) - 1))
    ELSE IF match_int(s, p) > 0
        THEN Match("IntLiteral", match_int(s, p), SubSeq(s, p, p + match_int(s, p) - 1))
    ELSE IF match_sugared_field(s, p) > 0
        THEN Match("SugaredFieldIdentifierLiteral", match_sugared_field(s, p),
                   SubSeq(s, p, p + match_sugared_field(s, p) - 1))
    ELSE IF match_sugared_contract(s, p) > 0
        THEN Match("SugaredContractIdentifierLiteral", match_sugared_contract(s, p),
                   SubSeq(s, p, p + match_sugared_contract(s, p) - 1))
    ELSE IF match_variable(s, p) > 0
        THEN Match("Variable", match_variable(s, p), SubSeq(s, p, p + match_variable(s, p) - 1))
    ELSE Match("None", 0, <<>>)

ParseErrorOf(err, text) == Err(<<err, text>>)

\* u128::from_str_radix / i128::from_str_radix on a run of digits with an
\* optional sign (the overflow of 128 bits takes 39 digits)
DigitValue(c) ==
    CASE c = "0" -> 0 [] c = "1" -> 1 [] c = "2" -> 2 [] c = "3" -> 3 [] c = "4" -> 4
      [] c = "5" -> 5 [] c = "6" -> 6 [] c = "7" -> 7 [] c = "8" -> 8 [] c = "9" -> 9
RECURSIVE from_str_radix(_, _)
from_str_radix(str_value, acc) ==
    IF str_value = <<>> THEN acc
    ELSE IF Head(str_value) = "-" THEN 0 - from_str_radix(Tail(str_value), acc)
    ELSE from_str_radix(Tail(str_value), 10 * acc + DigitValue(Head(str_value)))

\* ClarityName::try_from: at most MAX_STRING_LEN characters, not starting
\* with a digit
ClarityName_try_from(value) ==
    IF value # <<>> /\ Len(value) <= MAX_STRING_LEN /\ value[1] \notin digit
    THEN Ok(value) ELSE Err(<<"BadNameValue">>)
\* ContractName::try_from: CONTRACT_MIN_NAME_LENGTH..CONTRACT_MAX_NAME_LENGTH
\* characters, not starting with a digit
ContractName_try_from(value) ==
    IF Len(value) >= CONTRACT_MIN_NAME_LENGTH /\ Len(value) <= CONTRACT_MAX_NAME_LENGTH /\ value[1] \notin digit
    THEN Ok(value) ELSE Err(<<"BadNameValue">>)
\* TraitIdentifier::parse_sugared_syntax: ".contract.name"
parse_sugared_syntax(str_value) ==
    LET n == run(str_value, 2, alnum_or_dash)
        contract_name == ContractName_try_from(SubSeq(str_value, 2, n + 1))
        field_name == ClarityName_try_from(SubSeq(str_value, n + 3, Len(str_value)))
    IN  IF IsOk(contract_name) /\ IsOk(field_name)
        THEN Ok(<<contract_name[2], field_name[2]>>) ELSE Err(<<"BadNameValue">>)

\* `let token = match matcher.handler { .. }?`: the lex item of a match, or
\* the error.  The lengths are those of str_value, the text of the group
\* `value`.
token_of(m) ==
    CASE m.handler = "LParens" -> Ok(LeftParen)
      [] m.handler = "RParens" -> Ok(RightParen)
      [] m.handler = "Whitespace" -> Ok(Whitespace)
      [] m.handler = "Comma" -> Ok(CommaSeparator)
      [] m.handler = "Colon" -> Ok(ColonSeparator)
      [] m.handler = "LCurly" -> Ok(LeftCurly)
      [] m.handler = "RCurly" -> Ok(RightCurly)
      [] m.handler = "Variable" ->
            IF \E k \in 1..Len(m.value) : m.value[k] = "#" THEN ParseErrorOf("IllegalVariableName", m.value)
            ELSE Ok(Variable(m.value))
      [] m.handler = "UIntLiteral" ->
            Ok(LiteralValue(Len(m.value), <<"UInt", from_str_radix(m.value, 0)>>))
      [] m.handler = "IntLiteral" ->
            Ok(LiteralValue(Len(m.value), <<"Int", from_str_radix(m.value, 0)>>))
      [] m.handler = "SugaredContractIdentifierLiteral" ->
            IF IsOk(ContractName_try_from(Tail(m.value)))
            THEN Ok(SugaredContractIdentifier(Len(m.value), Tail(m.value)))
            ELSE ParseErrorOf("FailedParsingPrincipal", m.value)
      [] m.handler = "SugaredFieldIdentifierLiteral" ->
            IF IsOk(parse_sugared_syntax(m.value))
            THEN Ok(SugaredFieldIdentifier(Len(m.value), parse_sugared_syntax(m.value)[2]))
            ELSE ParseErrorOf("FailedParsingField", m.value)
      [] m.handler = "TraitReferenceLiteral" ->
            IF IsOk(ClarityName_try_from(m.value))
            THEN Ok(TraitReference(Len(m.value), m.value))
            ELSE ParseErrorOf("IllegalVariableName", m.value)
      [] m.handler = "StringLiteral" ->
            Ok(LiteralValue(Len(m.value), <<"Buffer", m.value>>))

\* the context check that lets any token follow any token
closes_atom_always(handler) == TRUE
\* LexContext::ExpectClosing: the tokens that may follow
closes_atom(handler) == handler \in {"RParens", "RCurly", "Whitespace", "Comma", "Colon"}
\* the context after a token, were it reset by `)` and `}` as well
context_after_reset_by_closers(handler) ==
    IF handler \in {"LParens", "Whitespace", "Comma", "Colon", "LCurly", "RParens", "RCurly"}
    THEN "ExpectNothing" ELSE "ExpectClosing"
\* the context after a token: ExpectClosing unless the token resets it
context_after(handler) ==
    IF handler \in {"LParens", "Whitespace", "Comma", "Colon", "LCurly"}
    THEN "ExpectNothing" ELSE "ExpectClosing"

\* get_lines_at: the indices of the "\n" of the input, the first to be
\* popped first
RECURSIVE get_lines_at(_, _)
get_lines_at(s, k) ==
    IF k >= Len(s) THEN <<>>
    ELSE (IF s[k + 1] = "\n" THEN <<k>> ELSE <<>>) \o get_lines_at(s, k + 1)
\* line_indices.pop()
pop_line(line_indices) == IF line_indices = <<>> THEN None ELSE Some(Head(line_indices))
popped(line_indices) == IF line_indices = <<>> THEN <<>> ELSE Tail(line_indices)

\* The locals of lex; err is Some(e) when an iteration returned Err(e).
Lexing(context, line_indices, next_line_break, current_line, result, munch_index, column_pos, did_match, err) ==
    [context |-> context, line_indices |-> line_indices, next_line_break |-> next_line_break,
     current_line |-> current_line, result |-> result, munch_index |-> munch_index,
     column_pos |-> column_pos, did_match |-> did_match, err |-> err]

\* lines 127-134: at most one line break is passed in an iteration
advance_line(st, munch_index) ==
    IF st.next_line_break # None /\ munch_index > st.next_line_break[1]
    THEN [st EXCEPT !.next_line_break = pop_line(st.line_indices),
                    !.line_indices = popped(st.line_indices),
                    !.column_pos = 1,
                    !.current_line = st.current_line + 1]
    ELSE st

\* One iteration of `while did_match && munch_index < input.len()`.
lex_iteration(st0, s) ==
    LET st == advance_line(st0, st0.munch_index)
        m == first_match(s, st.munch_index + 1)
        text == SubSeq(s, st.munch_index + 1, st.munch_index + m.end)
        token == token_of(m)
    IN  IF m.handler = "None" THEN [st EXCEPT !.did_match = FALSE]
        ELSE IF st.context = "ExpectClosing" /\ ~closes_atom(m.handler)
            THEN [st EXCEPT !.munch_index = @ + m.end, !.err = Some(<<"SeparatorExpected", text>>)]
        ELSE IF IsErr(token)
            THEN [st EXCEPT !.munch_index = @ + m.end, !.err = Some(token[2])]
        ELSE [st EXCEPT !.munch_index = @ + m.end,
                        !.context = context_after(m.handler),
                        !.result = Append(@, <<token[2], st.current_line, st.column_pos>>),
                        !.column_pos = @ + m.end,
                        !.did_match = TRUE]

RECURSIVE lex_loop(_, _)
lex_loop(st, s) ==
    IF st.err # None THEN Err(st.err[1])
    ELSE IF st.did_match /\ st.munch_index < Len(s) THEN lex_loop(lex_iteration(st, s), s)
    ELSE IF st.munch_index = Len(s) THEN Ok(st.result)
    ELSE ParseErrorOf("FailedParsingRemainder", SubSeq(s, st.munch_index + 1, Len(s)))

lex(s) ==
    lex_loop(Lexing("ExpectNothing", popped(get_lines_at(s, 0)), pop_line(get_lines_at(s, 0)),
                    1, <<>>, 0, 1, TRUE, None), s)

\* parse: lex, then parse_lexed
parse_of_lexed(lex_result) == IF IsOk(lex_result) THEN parse_lexed(lex_result[2]) ELSE lex_result
parse(s) == parse_of_lexed(lex(s))

(***************************************************************************)
(* SpecLexer: a source of at most MaxLen characters of Alphabet is lexed,  *)
(* and what lex returned is parsed.                                        *)
(***************************************************************************)
MaxLen == 3
\* The line terminators other than "\n": the carriage return and, written
\* "NEL", the character U+0085, which stands for the terminators outside
\* ASCII (U+0085, U+2028, U+2029).  It takes more than one byte of the
\* source, but lex never moves past it.
OtherLineTerminators == {"\r", "NEL"}
\* with the characters that stand outside every token pattern
Unmatched == OtherLineTerminators \cup {"#", "."}
Alphabet == {"(", ")", "{", "}", ":", ",", " ", "\n", "a", "1", "u", "\"", "<", ">"} \cup Unmatched
SourceTexts == UNION {[1..n -> Alphabet] : n \in 0..MaxLen}

InitLexer ==
    /\ input \in SourceTexts
    /\ lexed = None /\ parsed = None
    /\ ConnectionAtRest /\ ParserAtRest /\ ValuesAtRest /\ CallsAtRest /\ PassesAtRest /\ MapsAtRest /\ BlocksAtRest

Lex ==
    /\ lexed = None
    /\ lexed' = Some(lex(input))
    /\ UNCHANGED <<input, parsed, vars, parser_vars, value_vars, call_vars, pass_vars, map_vars, block_vars>>

Parse ==
    /\ lexed # None /\ parsed = None
    /\ parsed' = Some(parse_of_lexed(lexed[1]))
    /\ UNCHANGED <<input, lexed, vars, parser_vars, value_vars, call_vars, pass_vars, map_vars, block_vars>>

NextLexer == Lex \/ Parse

SpecLexer == InitLexer /\ [][NextLexer]_lexer_vars

(***************************************************************************)
(* SpecComments: the sources lexed hold a comment.  A source is a token or *)
(* nothing, then `;;`, then at most MaxComment characters, among them the  *)
(* tab, the carriage return and the line feed that ends the comment.       *)
(***************************************************************************)
MaxComment == 3
CommentPrefixes == {<<>>, <<"a">>, <<"(">>}
CommentAlphabet == {"a", " ", ";", "(", "\t", "\r", "\n"}
CommentTexts ==
    {prefix \o <<";", ";">> \o rest :
        prefix \in CommentPrefixes, rest \in UNION {[1..n -> CommentAlphabet] : n \in 0..MaxComment}}

InitComments ==
    /\ input \in CommentTexts
    /\ lexed = None /\ parsed = None
    /\ ConnectionAtRest /\ ParserAtRest /\ ValuesAtRest /\ CallsAtRest /\ PassesAtRest /\ MapsAtRest /\ BlocksAtRest

SpecComments == InitComments /\ [][NextLexer]_lexer_vars

(***************************************************************************)
(* The Value constructors (vm/types/mod.rs).  A value is kept as its       *)
(* variant with the size and the depth of its type signature, which is all *)
(* the constructors look at: [variant, size, depth].  TypeSignature is     *)
(* modelled from the specification: an int has size 16 and depth 1, a      *)
(* buffer the size of its length and depth 1, a wrapper adds               *)
(* WRAPPER_VALUE_SIZE and one level, a list is as large as its items       *)
(* together and one level deeper than they are, and so is a tuple; the     *)
(* constructors of list, tuple and buffer types fail on a size above       *)
(* MAX_VALUE_SIZE and on a depth above MAX_TYPE_DEPTH.  Which of the two a *)
(* list or tuple type reports when both are exceeded is left open.         *)
(***************************************************************************)
MAX_VALUE_SIZE == 1048576
MAX_TYPE_DEPTH == 32
WRAPPER_VALUE_SIZE == 1
INT_SIZE == 16

Value(variant, size, depth) == [variant |-> variant, size |-> size, depth |-> depth]
\* CheckErrors::X.into()
CheckErrors_into(e) == Err(<<"Unchecked", e>>)
\* Value::Int(_)
Value_Int == Value("Int", INT_SIZE, 1)
\* TypeSignature::type_of(self).size() and .depth()
Value_size(v) == v.size
Value_depth(v) == v.depth

\* Value::some that looks at the depth before the size
Value_some_depth_first(data) ==
    IF Value_depth(data) + 1 > MAX_TYPE_DEPTH THEN CheckErrors_into("TypeSignatureTooDeep")
    ELSE IF Value_size(data) + WRAPPER_VALUE_SIZE > MAX_VALUE_SIZE THEN CheckErrors_into("ValueTooLarge")
    ELSE Ok(Value("Optional", Value_size(data) + WRAPPER_VALUE_SIZE, Value_depth(data) + 1))
Value_some(data) ==
    IF Value_size(data) + WRAPPER_VALUE_SIZE > MAX_VALUE_SIZE THEN CheckErrors_into("ValueTooLarge")
    ELSE IF Value_depth(data) + 1 > MAX_TYPE_DEPTH THEN CheckErrors_into("TypeSignatureTooDeep")
    ELSE Ok(Value("Optional", Value_size(data) + WRAPPER_VALUE_SIZE, Value_depth(data) + 1))
Value_okay(data) ==
    IF Value_size(data) + WRAPPER_VALUE_SIZE > MAX_VALUE_SIZE THEN CheckErrors_into("ValueTooLarge")
    ELSE IF Value_depth(data) + 1 > MAX_TYPE_DEPTH THEN CheckErrors_into("TypeSignatureTooDeep")
    ELSE Ok(Value("ResponseOk", Value_size(data) + WRAPPER_VALUE_SIZE, Value_depth(data) + 1))
Value_error(data) ==
    IF Value_size(data) + WRAPPER_VALUE_SIZE > MAX_VALUE_SIZE THEN CheckErrors_into("ValueTooLarge")
    ELSE IF Value_depth(data) + 1 > MAX_TYPE_DEPTH THEN CheckErrors_into("TypeSignatureTooDeep")
    ELSE Ok(Value("ResponseErr", Value_size(data) + WRAPPER_VALUE_SIZE, Value_depth(data) + 1))

\* BufferLength::try_from(buff_data.len())?
Value_buff_from(len) ==
    IF len > MAX_VALUE_SIZE THEN CheckErrors_into("ValueTooLarge") ELSE Ok(Value("Buffer", len, 1))

\* the size of count items of size item_size together; any size above the
\* limit is given as MAX_VALUE_SIZE + 1 (the sizes are checked sums)
size_of_items(count, item_size) ==
    IF item_size > 0 /\ count > MAX_VALUE_SIZE \div item_size THEN MAX_VALUE_SIZE + 1
    ELSE count * item_size
\* what the constructor of a list or tuple type of the given size over
\* items of the given depth may return
type_limits(variant, size, item_depth) ==
    LET errors == (IF size > MAX_VALUE_SIZE THEN {"ValueTooLarge"} ELSE {})
                    \cup (IF item_depth + 1 > MAX_TYPE_DEPTH THEN {"TypeSignatureTooDeep"} ELSE {})
    IN  IF errors = {} THEN {Ok(Value(variant, size, item_depth + 1))}
        ELSE {CheckErrors_into(e) : e \in errors}
\* Value::list_from(vec![item; len]): TypeSignature::construct_parent_list_type(&list_data)?
Value_list_from(item, len) == type_limits("List", size_of_items(len, Value_size(item)), Value_depth(item))
(***************************************************************************)
(* Tuples.  A ClarityName is a sequence of characters; names are ordered   *)
(* as strings are, character by character, a proper prefix first.  A       *)
(* BTreeMap is the sequence of its entries <<key, value>> in the order of  *)
(* their keys.                                                             *)
(***************************************************************************)
char_order == <<"a", "b">>
char_rank(c) == CHOOSE i \in 1..Len(char_order) : char_order[i] = c
RECURSIVE name_cmp(_, _)
name_cmp(x, y) ==
    IF x = <<>> /\ y = <<>> THEN "Equal"
    ELSE IF x = <<>> THEN "Less"
    ELSE IF y = <<>> THEN "Greater"
    ELSE IF char_rank(Head(x)) < char_rank(Head(y)) THEN "Less"
    ELSE IF char_rank(Head(x)) > char_rank(Head(y)) THEN "Greater"
    ELSE name_cmp(Tail(x), Tail(y))
BTreeMap_new == <<>>
BTreeMap_contains_key(map, key) == \E i \in 1..Len(map) : map[i][1] = key
BTreeMap_insert(map, key, v) ==
    LET Before(e) == name_cmp(e[1], key) = "Less"
        After(e) == name_cmp(e[1], key) = "Greater"
    IN  SelectSeq(map, Before) \o <<<<key, v>>>> \o SelectSeq(map, After)

\* the size and depth of the tuple type over the types of the values; any
\* size above the limit is given as MAX_VALUE_SIZE + 1
RECURSIVE size_of_fields(_)
size_of_fields(type_map) ==
    IF type_map = <<>> THEN 0
    ELSE LET rest == size_of_fields(Tail(type_map))
         IN  IF rest + Head(type_map)[2].size > MAX_VALUE_SIZE THEN MAX_VALUE_SIZE + 1
             ELSE rest + Head(type_map)[2].size
RECURSIVE depth_of_fields(_)
depth_of_fields(type_map) ==
    IF type_map = <<>> THEN 0
    ELSE LET rest == depth_of_fields(Tail(type_map))
         IN  IF Head(type_map)[2].depth > rest THEN Head(type_map)[2].depth ELSE rest
\* TupleTypeSignature::try_from(type_map): what it may return
TupleTypeSignature_try_from(type_map) ==
    type_limits("Tuple", size_of_fields(type_map), depth_of_fields(type_map))
TupleData_new(type_signature, data_map) == Ok([type_signature |-> type_signature, data_map |-> data_map])

\* the loop of from_data over data[i..]: an error, or the two maps
RECURSIVE from_data_drain(_, _, _, _)
from_data_drain(fields, i, type_map, data_map) ==
    IF i > Len(fields) THEN Ok(<<type_map, data_map>>)
    ELSE IF BTreeMap_contains_key(type_map, fields[i][1])
    THEN Err(<<"Unchecked", "NameAlreadyUsed", fields[i][1]>>)
    ELSE from_data_drain(fields, i + 1,
                         BTreeMap_insert(type_map, fields[i][1], fields[i][2]),
                         BTreeMap_insert(data_map, fields[i][1], fields[i][2]))
\* from_data that keeps the fields in the order given
TupleData_from_data_as_given(fields) ==
    LET maps == from_data_drain(fields, 1, BTreeMap_new, BTreeMap_new)
    IN  IF IsErr(maps) THEN {maps}
        ELSE {IF IsOk(t) THEN TupleData_new(t[2], fields) ELSE t :
                t \in TupleTypeSignature_try_from(maps[2][1])}
\* TupleData::from_data(data): the set of results it may return
TupleData_from_data(fields) ==
    LET maps == from_data_drain(fields, 1, BTreeMap_new, BTreeMap_new)
    IN  IF IsErr(maps) THEN {maps}
        ELSE {IF IsOk(t) THEN TupleData_new(t[2], maps[2][2]) ELSE t :
                t \in TupleTypeSignature_try_from(maps[2][1])}
\* Value::from(TupleData)
Value_from_TupleData(t) == t.type_signature

(***************************************************************************)
(* SpecValues: a value is made, and then wrapped, listed and put in tuples *)
(* again and again.  current is the value made so far, constructed the last   *)
(* constructor called and what it returned.                                *)
(***************************************************************************)
\* the buffer lengths tried: around the limit, and small ones
BufferLengths == {0, 1, MAX_VALUE_SIZE - INT_SIZE, MAX_VALUE_SIZE - 1, MAX_VALUE_SIZE, MAX_VALUE_SIZE + 1}
\* the list lengths tried: one item, and as many ints as reach the limit
ListLengths == {1, MAX_VALUE_SIZE \div INT_SIZE}
\* the field names tried
FieldNames == {<< <<"a">> >>, << <<"a">>, <<"a">> >>}

InitValues == ValuesAtRest /\ ConnectionAtRest /\ ParserAtRest /\ LexerAtRest /\ CallsAtRest /\ PassesAtRest /\ MapsAtRest /\ BlocksAtRest

\* the constructor op returned ret
Constructed(op, ret) ==
    /\ constructed' = Some([op |-> op, ret |-> ret])
    /\ current' = IF IsOk(ret) THEN Some(ret[2]) ELSE current
    /\ UNCHANGED <<vars, parser_vars, lexer_vars, call_vars, pass_vars, map_vars, block_vars>>

Make_Int == current = None /\ Constructed("Int", Ok(Value_Int))
Call_buff_from == current = None /\ \E len \in BufferLengths : Constructed("buff_from", Value_buff_from(len))
Call_some == current # None /\ Constructed("some", Value_some(current[1]))
Call_okay == current # None /\ Constructed("okay", Value_okay(current[1]))
Call_error == current # None /\ Constructed("error", Value_error(current[1]))
Call_list_from ==
    current # None /\ \E len \in ListLengths : \E ret \in Value_list_from(current[1], len) : Constructed("list_from", ret)
Call_from_data ==
    /\ current # None
    /\ \E names \in FieldNames :
         \E ret \in TupleData_from_data([i \in 1..Len(names) |-> <<names[i], current[1]>>]) :
           Constructed("from_data", IF IsOk(ret) THEN Ok(Value_from_TupleData(ret[2])) ELSE ret)

NextValues ==
    \/ Make_Int
    \/ Call_buff_from
    \/ Call_some
    \/ Call_okay
    \/ Call_error
    \/ Call_list_from
    \/ Call_from_data

SpecValues == InitValues /\ [][NextValues]_value_vars

(***************************************************************************)
(* SpecTuples: from_data is called once, on a list of fields in any order  *)
(* and with repeated names.  constructed holds the list given and the      *)
(* result.                                                                 *)
(***************************************************************************)
MaxFields == 3
NamePool == {<<"a">>, <<"a", "b">>, <<"b">>, <<"b", "a">>}
FieldValues == {Value_Int, Value("Buffer", 1, 1)}
FieldLists == UNION {[1..n -> NamePool \X FieldValues] : n \in 1..MaxFields}

InitTuples == CallsAtRest /\ ValuesAtRest /\ ConnectionAtRest /\ ParserAtRest /\ LexerAtRest /\ PassesAtRest /\ MapsAtRest /\ BlocksAtRest

Call_from_data_fields ==
    /\ constructed = None
    /\ \E fields \in FieldLists : \E ret \in TupleData_from_data(fields) :
         /\ constructed' = Some([op |-> "from_data", ret |-> ret, fields |-> fields])
         /\ current' = IF IsOk(ret) THEN Some(Value_from_TupleData(ret[2])) ELSE current
    /\ UNCHANGED <<vars, parser_vars, lexer_vars, call_vars, pass_vars, map_vars, block_vars>>

NextTuples == Call_from_data_fields

SpecTuples == InitTuples /\ [][NextTuples]_value_vars

(***************************************************************************)
(* TupleData::from_data_typed (types/mod.rs).  The expected tuple type is  *)
(* the BTreeMap of its fields' types; a type admits the values of its      *)
(* variant that are not larger than it.                                    *)
(***************************************************************************)
\* TupleTypeSignature::field_type(name)
field_type(expected, name) ==
    IF BTreeMap_contains_key(expected, name)
    THEN Some(expected[CHOOSE i \in 1..Len(expected) : expected[i][1] = name][2])
    ELSE None
\* TypeSignature::admits(value)
admits(expected_type, v) == v.variant = expected_type.variant /\ v.size <= expected_type.size
FailureConstructingTupleWithType == Err(<<"Interpreter", "FailureConstructingTupleWithType">>)
\* the loop of from_data_typed over data[i..]: an error, or the data map
RECURSIVE from_data_typed_drain(_, _, _, _)
from_data_typed_drain(fields, i, expected, data_map) ==
    IF i > Len(fields) THEN Ok(data_map)
    ELSE IF field_type(expected, fields[i][1]) = None THEN FailureConstructingTupleWithType
    ELSE IF ~admits(field_type(expected, fields[i][1])[1], fields[i][2]) THEN FailureConstructingTupleWithType
    ELSE from_data_typed_drain(fields, i + 1, expected, BTreeMap_insert(data_map, fields[i][1], fields[i][2]))
TupleData_from_data_typed(fields, expected) ==
    LET drained == from_data_typed_drain(fields, 1, expected, BTreeMap_new)
    IN  IF IsErr(drained) THEN drained ELSE TupleData_new(expected, drained[2])

(***************************************************************************)
(* SpecTypedTuples: from_data_typed is called once, on a list of fields in *)
(* any order and with repeated names, for a tuple type of one or two       *)
(* fields.                                                                 *)
(***************************************************************************)
TupleTypes ==
    {<< <<<<"a">>, Value_Int>> >>,
     << <<<<"a">>, Value_Int>>, <<<<"b">>, Value("Buffer", 1, 1)>> >>,
     << <<<<"a">>, Value("Buffer", 1, 1)>>, <<<<"a", "b">>, Value_Int>> >>}

Call_from_data_typed ==
    /\ constructed = None
    /\ \E fields \in FieldLists : \E expected \in TupleTypes :
         LET ret == TupleData_from_data_typed(fields, expected)
         IN  /\ constructed' = Some([op |-> "from_data_typed", ret |-> ret, fields |-> fields,
                                     expected |-> expected])
             /\ current' = IF IsOk(ret) THEN Some(Value("Tuple", 1, 1)) ELSE current
    /\ UNCHANGED <<vars, parser_vars, lexer_vars, call_vars, pass_vars, map_vars, block_vars>>

NextTypedTuples == Call_from_data_typed

SpecTypedTuples == InitTuples /\ [][NextTypedTuples]_value_vars

(***************************************************************************)
(* SpecPasses: build_ast and run_analysis are called directly, on sources  *)
(* with every kind of defect and with trackers at every distance from      *)
(* their limit.  analysis_store is the store under the analysis db, ran    *)
(* the last call, the steps it ran and its outcome.                        *)
(***************************************************************************)
AstSources ==
    {"src_A", "src_unparsable", "src_too_deep", "src_too_many_expressions", "src_circular",
     "src_unknown_trait", "src_unknown_trait_reference", "src_too_deep_circular",
     "src_circular_unknown_trait"}
AnalysisSources(id) ==
    {ValidSource(id), "src_writes_in_read_only", "src_illtyped", "src_bad_trait_impl",
     "src_illtyped_writes_in_read_only", "src_illtyped_bad_trait_impl"}
\* trackers that have spent any part of their limit
Trackers ==
    UNION {{[total |-> ExecutionCost(t), limit |-> ExecutionCost(l)] : t \in 0..l} : l \in 1..U64Max}

Ran(op, args, r) == Some([op |-> op, args |-> args, steps |-> r.steps, ret |-> r.ret, tx |-> r.tx])

InitPasses ==
    /\ PassesAtRest
    /\ ConnectionAtRest /\ ParserAtRest /\ LexerAtRest /\ ValuesAtRest /\ CallsAtRest /\ MapsAtRest /\ BlocksAtRest

\* The source is parsed before any analysis is run on the store
Call_build_ast ==
    /\ ran = None
    /\ \E id \in ContractIds : \E src \in AstSources : \E tracker \in Trackers : \E c, c_sort \in Charges :
         LET r == build_ast(id, src, tracker, c, c_sort)
         IN  ran' = Ran("build_ast", <<id, src, tracker, c, c_sort>>,
                        [steps |-> r.steps, ret |-> r.ret, tx |-> <<>>])
    /\ UNCHANGED <<analysis_store, vars, parser_vars, lexer_vars, value_vars, call_vars, map_vars, block_vars>>

Call_run_analysis ==
    /\ \E id \in ContractIds : \E src \in AnalysisSources(id) : \E save_contract \in BOOLEAN :
       \E tracker \in Trackers : \E c \in Charges :
         LET r == run_analysis(id, src, AnalysisDatabase_new(analysis_store), save_contract, tracker, c)
         IN  /\ ran' = Ran("run_analysis", <<id, src, tracker, c, save_contract>>, r)
             /\ analysis_store' = r.db.store
    /\ UNCHANGED <<vars, parser_vars, lexer_vars, value_vars, call_vars, map_vars, block_vars>>

NextPasses ==
    \/ Call_build_ast
    \/ Call_run_analysis

SpecPasses == InitPasses /\ [][NextPasses]_pass_vars

(***************************************************************************)
(* Function application (vm/mod.rs).  A CallableType is a user, native or  *)
(* special function with an identifier.  The CallStack holds the           *)
(* identifiers of the applications in progress, innermost last, and the    *)
(* set of those that are tracked for recursion.                            *)
(***************************************************************************)
MAX_CALL_STACK_DEPTH == 64

UserFunction(id) == [kind |-> "UserFunction", identifier |-> id]
NativeFunction(id) == [kind |-> "NativeFunction", identifier |-> id]
SpecialFunction(id) == [kind |-> "SpecialFunction", identifier |-> id]

CallStack_new == [stack |-> <<>>, set |-> {}]
CallStack_depth(cs) == Len(cs.stack)
CallStack_contains(cs, id) == id \in cs.set
CallStack_insert(cs, id, track) ==
    [stack |-> Append(cs.stack, id), set |-> IF track THEN cs.set \cup {id} ELSE cs.set]
CallStack_remove(cs, id, tracked) ==
    LET n == Len(cs.stack)
    IN  IF n = 0
        THEN [call_stack |-> cs, ret |-> Err(<<"Interpreter", "Tried to remove item from empty call stack.">>)]
        ELSE IF cs.stack[n] # id
        THEN [call_stack |-> [cs EXCEPT !.stack = SubSeq(@, 1, n - 1)],
              ret |-> Err(<<"Interpreter", "Tried to remove item from empty call stack.">>)]
        ELSE [call_stack |-> [stack |-> SubSeq(cs.stack, 1, n - 1),
                              set |-> IF tracked THEN cs.set \ {id} ELSE cs.set],
              ret |-> Ok(<<>>)]

Environment_new(cost_track, native_cost) ==
    [call_stack |-> CallStack_new, cost_track |-> cost_track, native_cost |-> native_cost]

track_recursion(function) == function.kind = "UserFunction"

(***************************************************************************)
(* apply, in the two parts that an application in progress separates: the  *)
(* checks and the push made on entry, and what is done once the nested     *)
(* evaluation (the arguments of a native function, the body of a user or   *)
(* special function) has produced its result.                              *)
(***************************************************************************)
\* the recursion check without regard to the kind of function
apply_refusal_tracks_all(function, e) ==
    IF CallStack_contains(e.call_stack, function.identifier)
         \/ \E i \in 1..Len(e.call_stack.stack) : e.call_stack.stack[i] = function.identifier
    THEN Some(Err(<<"Unchecked", <<"CircularReference", <<function.identifier>>>>>>))
    ELSE IF CallStack_depth(e.call_stack) >= MAX_CALL_STACK_DEPTH
    THEN Some(Err(<<"Runtime", "MaxStackDepthReached", None>>))
    ELSE None
\* the depth check that lets one more application in
apply_refusal_off_by_one(function, e) ==
    IF track_recursion(function) /\ CallStack_contains(e.call_stack, function.identifier)
    THEN Some(Err(<<"Unchecked", <<"CircularReference", <<function.identifier>>>>>>))
    ELSE IF CallStack_depth(e.call_stack) > MAX_CALL_STACK_DEPTH
    THEN Some(Err(<<"Runtime", "MaxStackDepthReached", None>>))
    ELSE None
\* the early returns of apply: Some(error), or None when the application goes ahead
apply_refusal(function, e) ==
    IF track_recursion(function) /\ CallStack_contains(e.call_stack, function.identifier)
    THEN Some(Err(<<"Unchecked", <<"CircularReference", <<function.identifier>>>>>>))
    ELSE IF CallStack_depth(e.call_stack) >= MAX_CALL_STACK_DEPTH
    THEN Some(Err(<<"Runtime", "MaxStackDepthReached", None>>))
    ELSE None
apply_enter(function, e) ==
    [e EXCEPT !.call_stack = CallStack_insert(@, function.identifier, track_recursion(function))]
\* CallStack::make_stack_trace: the identifiers on the stack, outermost first
CallStack_make_stack_trace(cs) == cs.stack
\* add_stack_trace that overwrites the trace an error already carries
add_stack_trace_replacing(result, e) ==
    IF IsErr(result) /\ result[2][1] = "Runtime"
    THEN Err(<<"Runtime", result[2][2], Some(CallStack_make_stack_trace(e.call_stack))>>)
    ELSE result
\* a Runtime error is <<"Runtime", type, Option<stack trace>>>
add_stack_trace(result, e) ==
    IF IsErr(result) /\ result[2][1] = "Runtime"
    THEN IF result[2][3] = None
         THEN Err(<<"Runtime", result[2][2], Some(CallStack_make_stack_trace(e.call_stack))>>)
         ELSE result
    ELSE result
\* nested is the result of the evaluation made while the application was on
\* the stack, and via tells which evaluation that was: "args", the
\* evaluation of the arguments of a native or user function, or "body", the
\* function itself (the special function, the native function applied to
\* its evaluated arguments, the body of the user function).
apply_leave(function, e, nested, via) ==
    LET rm == CallStack_remove(e.call_stack, function.identifier, track_recursion(function))
        removed == [e EXCEPT !.call_stack = rm.call_stack]
        a == add_cost(e.cost_track, e.native_cost)
        charged == [e EXCEPT !.cost_track = a.cost_track]
    IN  IF function.kind = "SpecialFunction"
        THEN [env |-> removed, ret |-> IF IsErr(rm.ret) THEN rm.ret ELSE add_stack_trace(nested, e)]
        ELSE IF via = "args" /\ IsErr(nested)
        THEN [env |-> removed, ret |-> IF IsErr(rm.ret) THEN rm.ret ELSE nested]
        ELSE IF function.kind = "NativeFunction"
        THEN IF a.err # None
             THEN [env |-> charged, ret |-> CostFailure(a)]
             ELSE [env |-> [charged EXCEPT !.call_stack = rm.call_stack],
                   ret |-> IF IsErr(rm.ret) THEN rm.ret ELSE add_stack_trace(nested, e)]
        ELSE [env |-> removed, ret |-> IF IsErr(rm.ret) THEN rm.ret ELSE add_stack_trace(nested, e)]

(***************************************************************************)
(* The nestings applied: chains of applications, each made while the one   *)
(* before it is in progress.                                               *)
(***************************************************************************)
ShortNesting == 3
Overshoot == 2
Lengths == (1..ShortNesting) \cup ((MAX_CALL_STACK_DEPTH - 1)..(MAX_CALL_STACK_DEPTH + Overshoot))
Shapes == {"natives", "specials", "recursive", "mixed"}
Nesting(shape, n) ==
    [i \in 1..n |->
        IF shape = "natives" THEN NativeFunction("+")
        ELSE IF shape = "specials" THEN SpecialFunction("if")
        ELSE IF shape = "recursive" THEN (IF i \in {1, n} THEN UserFunction("f") ELSE NativeFunction("+"))
        ELSE IF i = 1 THEN UserFunction("f")
        ELSE IF i = 2 THEN UserFunction("g")
        ELSE IF i % 2 = 1 THEN SpecialFunction("if") ELSE NativeFunction("+")]
Nestings == {Nesting(shape, n) : shape \in Shapes, n \in Lengths}
\* what the innermost evaluation yields
Innermost == {Ok(1), Err(<<"Runtime", "DivisionByZero", None>>), Err(<<"Unchecked", <<"UndefinedVariable", "x">>>>)}
\* where the result handed to an application can come from: a special
\* function evaluates its arguments itself, and a native function applies
\* no function, so that an application nested in it is one of its arguments
Vias(function, innermost) ==
    IF function.kind = "SpecialFunction" THEN {"body"}
    ELSE IF function.kind = "NativeFunction" /\ ~innermost THEN {"args"}
    ELSE {"args", "body"}
Returned(function, e, nested, via) ==
    [function |-> function, call_stack |-> e.call_stack, nested |-> nested, via |-> via]

Applied(function, e, ret) ==
    [function |-> function, depth |-> CallStack_depth(e.call_stack),
     contained |-> \E i \in 1..Len(e.call_stack.stack) : e.call_stack.stack[i] = function.identifier,
     ret |-> ret]

InitCalls ==
    /\ nesting \in Nestings
    /\ \E limit \in Limits : \E c \in Charges :
         env = Some(Environment_new(LimitedCostTracker_new(limit), c))
    /\ active = 0 /\ resp = None /\ applied = None /\ returned = None
    /\ ConnectionAtRest /\ ParserAtRest /\ LexerAtRest /\ ValuesAtRest /\ PassesAtRest /\ MapsAtRest /\ BlocksAtRest

\* apply is called on the next function of the nesting
Apply ==
    /\ resp = None /\ active < Len(nesting)
    /\ LET function == nesting[active + 1]
           refusal == apply_refusal(function, env[1])
       IN  /\ applied' = Some(Applied(function, env[1], refusal))
           /\ IF refusal # None
              THEN resp' = refusal /\ UNCHANGED <<env, active>>
              ELSE /\ env' = Some(apply_enter(function, env[1]))
                   /\ active' = active + 1
                   /\ resp' = None
    /\ UNCHANGED <<nesting, returned, vars, parser_vars, lexer_vars, value_vars, pass_vars, map_vars, block_vars>>

\* the innermost application in progress gets the result of its nested evaluation and returns
Return ==
    /\ active > 0
    /\ resp # None \/ active = Len(nesting)
    /\ \E nested \in (IF resp # None THEN {resp[1]} ELSE Innermost) :
       \E via \in Vias(nesting[active], resp = None) :
         LET r == apply_leave(nesting[active], env[1], nested, via)
         IN  /\ env' = Some(r.env)
             /\ resp' = Some(r.ret)
             /\ active' = active - 1
             /\ returned' = Some(Returned(nesting[active], env[1], nested, via))
    /\ UNCHANGED <<nesting, applied, vars, parser_vars, lexer_vars, value_vars, pass_vars, map_vars, block_vars>>

NextCalls ==
    \/ Apply
    \/ Return

SpecCalls == InitCalls /\ [][NextCalls]_call_vars

(***************************************************************************)
(* The type checker of the map functions                                   *)
(* (vm/analysis/type_checker/natives/maps.rs).  TypeSignature, the         *)
(* checker's contexts and the cost functions are modelled from the         *)
(* specification.  A type is <<"Int">>, <<"Bool">>, <<"NoType">>,          *)
(* <<"Buffer", max_len>> or <<"Optional", inner>>; admission is            *)
(* structural: a buffer type admits the buffer types that are not longer,  *)
(* an optional type admits the optional types whose inner type it admits,  *)
(* NoType is admitted by every type, and otherwise the types must be       *)
(* equal.  An argument is [atom, type]: the name when the expression is an *)
(* atom, and what typing the expression as a map argument yields.  Every   *)
(* cost function charges the same amount c.                                *)
(***************************************************************************)
IntType == <<"Int">>
BoolType == <<"Bool">>
BufferType(max_len) == <<"Buffer", max_len>>
OptionalType(inner) == <<"Optional", inner>>
RECURSIVE type_depth(_)
type_depth(t) == IF t[1] = "Optional" THEN 1 + type_depth(t[2]) ELSE 1
RECURSIVE type_size(_)
type_size(t) ==
    CASE t[1] = "Int" -> INT_SIZE
      [] t[1] = "Buffer" -> t[2]
      [] t[1] = "Optional" -> WRAPPER_VALUE_SIZE + type_size(t[2])
      [] OTHER -> 1
RECURSIVE admits_type(_, _)
admits_type(expected, other) ==
    IF other[1] = "NoType" THEN TRUE
    ELSE IF expected[1] = "Buffer" THEN other[1] = "Buffer" /\ other[2] <= expected[2]
    ELSE IF expected[1] = "Optional" THEN other[1] = "Optional" /\ admits_type(expected[2], other[2])
    ELSE other = expected
TypeSignature_new_option(inner) ==
    IF type_size(inner) + WRAPPER_VALUE_SIZE > MAX_VALUE_SIZE THEN Err(<<"ValueTooLarge">>)
    ELSE IF type_depth(inner) + 1 > MAX_TYPE_DEPTH THEN Err(<<"TypeSignatureTooDeep">>)
    ELSE Ok(OptionalType(inner))

Expression(atom, type) == [atom |-> atom, type |-> type]
match_atom(expr) == expr.atom
check_and_type_map_arg_tuple(expr) == expr.type
get_map_type(contract_context, map_name) ==
    IF map_name \in DOMAIN contract_context THEN Some(contract_context[map_name]) ELSE None
\* one more runtime_cost! after those before it: nothing is charged once one failed
runtime_cost(charged, c) == IF charged.err # None THEN charged ELSE add_cost(charged.cost_track, c)
TypeResult(cost_track, ret) == [cost_track |-> cost_track, ret |-> ret]
IncorrectArgumentCount(expected, found) == Err(<<"IncorrectArgumentCount", expected, found>>)
TypeError(expected, found) == Err(<<"TypeError", expected, found>>)

check_special_fetch_entry(checker, args, c) ==
    LET map_name == match_atom(args[1])
        key_type == check_and_type_map_arg_tuple(args[2])
        map_type == get_map_type(checker.contract_context, map_name[1])
        charged == runtime_cost(runtime_cost(add_cost(checker.cost_track, c), c), c)
        option_type == TypeSignature_new_option(map_type[1][2])
    IN  IF Len(args) < 2 THEN TypeResult(checker.cost_track, IncorrectArgumentCount(2, Len(args)))
        ELSE IF map_name = None THEN TypeResult(checker.cost_track, Err(<<"BadMapName">>))
        ELSE IF IsErr(key_type) THEN TypeResult(checker.cost_track, key_type)
        ELSE IF map_type = None THEN TypeResult(checker.cost_track, Err(<<"NoSuchMap", map_name[1]>>))
        ELSE IF charged.err # None THEN TypeResult(charged.cost_track, Err(charged.err[1]))
        ELSE IF IsErr(option_type) THEN TypeResult(charged.cost_track, option_type)
        ELSE IF ~admits_type(map_type[1][1], key_type[2])
        THEN TypeResult(charged.cost_track, TypeError(map_type[1][1], key_type[2]))
        ELSE TypeResult(charged.cost_track, Ok(option_type[2]))

check_special_delete_entry(checker, args, c) ==
    LET map_name == match_atom(args[1])
        key_type == check_and_type_map_arg_tuple(args[2])
        map_type == get_map_type(checker.contract_context, map_name[1])
        charged == runtime_cost(add_cost(checker.cost_track, c), c)
    IN  IF Len(args) < 2 THEN TypeResult(checker.cost_track, IncorrectArgumentCount(2, Len(args)))
        ELSE IF map_name = None THEN TypeResult(checker.cost_track, Err(<<"BadMapName">>))
        ELSE IF IsErr(key_type) THEN TypeResult(checker.cost_track, key_type)
        ELSE IF map_type = None THEN TypeResult(checker.cost_track, Err(<<"NoSuchMap", map_name[1]>>))
        ELSE IF charged.err # None THEN TypeResult(charged.cost_track, Err(charged.err[1]))
        ELSE IF ~admits_type(map_type[1][1], key_type[2])
        THEN TypeResult(charged.cost_track, TypeError(map_type[1][1], key_type[2]))
        ELSE TypeResult(charged.cost_track, Ok(BoolType))

\* check_set_or_insert_entry that looks at the value before the key
check_set_or_insert_entry_value_first(checker, args, c) ==
    LET map_name == match_atom(args[1])
        key_type == check_and_type_map_arg_tuple(args[2])
        value_type == check_and_type_map_arg_tuple(args[3])
        map_type == get_map_type(checker.contract_context, map_name[1])
        charged == runtime_cost(runtime_cost(runtime_cost(add_cost(checker.cost_track, c), c), c), c)
    IN  IF Len(args) < 3 THEN TypeResult(checker.cost_track, IncorrectArgumentCount(3, Len(args)))
        ELSE IF map_name = None THEN TypeResult(checker.cost_track, Err(<<"BadMapName">>))
        ELSE IF IsErr(key_type) THEN TypeResult(checker.cost_track, key_type)
        ELSE IF IsErr(value_type) THEN TypeResult(checker.cost_track, value_type)
        ELSE IF map_type = None THEN TypeResult(checker.cost_track, Err(<<"NoSuchMap", map_name[1]>>))
        ELSE IF charged.err # None THEN TypeResult(charged.cost_track, Err(charged.err[1]))
        ELSE IF ~admits_type(map_type[1][2], value_type[2])
        THEN TypeResult(charged.cost_track, TypeError(map_type[1][2], value_type[2]))
        ELSE IF ~admits_type(map_type[1][1], key_type[2])
        THEN TypeResult(charged.cost_track, TypeError(map_type[1][1], key_type[2]))
        ELSE TypeResult(charged.cost_track, Ok(BoolType))
check_set_or_insert_entry(checker, args, c) ==
    LET map_name == match_atom(args[1])
        key_type == check_and_type_map_arg_tuple(args[2])
        value_type == check_and_type_map_arg_tuple(args[3])
        map_type == get_map_type(checker.contract_context, map_name[1])
        charged == runtime_cost(runtime_cost(runtime_cost(add_cost(checker.cost_track, c), c), c), c)
    IN  IF Len(args) < 3 THEN TypeResult(checker.cost_track, IncorrectArgumentCount(3, Len(args)))
        ELSE IF map_name = None THEN TypeResult(checker.cost_track, Err(<<"BadMapName">>))
        ELSE IF IsErr(key_type) THEN TypeResult(checker.cost_track, key_type)
        ELSE IF IsErr(value_type) THEN TypeResult(checker.cost_track, value_type)
        ELSE IF map_type = None THEN TypeResult(checker.cost_track, Err(<<"NoSuchMap", map_name[1]>>))
        ELSE IF charged.err # None THEN TypeResult(charged.cost_track, Err(charged.err[1]))
        ELSE IF ~admits_type(map_type[1][1], key_type[2])
        THEN TypeResult(charged.cost_track, TypeError(map_type[1][1], key_type[2]))
        ELSE IF ~admits_type(map_type[1][2], value_type[2])
        THEN TypeResult(charged.cost_track, TypeError(map_type[1][2], value_type[2]))
        ELSE TypeResult(charged.cost_track, Ok(BoolType))
check_special_set_entry(checker, args, c) == check_set_or_insert_entry(checker, args, c)
check_special_insert_entry(checker, args, c) == check_set_or_insert_entry(checker, args, c)

(***************************************************************************)
(* SpecMaps: one map function is type-checked in a contract that defines   *)
(* three maps, of which one has a value type of the greatest depth and one *)
(* a value type of the greatest size.                                      *)
(***************************************************************************)
RECURSIVE Wrapped(_, _)
Wrapped(t, k) == IF k = 0 THEN t ELSE OptionalType(Wrapped(t, k - 1))
DeepType == Wrapped(IntType, MAX_TYPE_DEPTH - 1)
HugeType == BufferType(MAX_VALUE_SIZE)
MapsDefined ==
    [map_name \in {"m", "deep", "huge"} |->
        CASE map_name = "m" -> <<BufferType(2), IntType>>
          [] map_name = "deep" -> <<IntType, DeepType>>
          [] map_name = "huge" -> <<IntType, HugeType>>]
Unbound == Err(<<"UnboundVariable", "x">>)
MapNameArgs ==
    {Expression(Some(map_name), Ok(<<"NoType">>)) : map_name \in {"m", "deep", "huge", "nope"}}
        \cup {Expression(None, Ok(IntType))}
KeyArgs == {Expression(None, type) : type \in {Ok(IntType), Ok(BufferType(1)), Ok(BufferType(3)), Unbound}}
ValueArgs == {Expression(None, type) : type \in {Ok(IntType), Ok(BoolType), Ok(DeepType), Ok(HugeType), Unbound}}
MapArgs ==
    {<<map_name>> : map_name \in MapNameArgs}
        \cup {<<map_name, key>> : map_name \in MapNameArgs, key \in KeyArgs}
        \cup {<<map_name, key, value>> : map_name \in MapNameArgs, key \in KeyArgs, value \in ValueArgs}
Checked(op, args, checker, c, r) ==
    Some([op |-> op, args |-> args, checker |-> checker, cost |-> c,
          cost_track |-> r.cost_track, ret |-> r.ret])

InitMaps ==
    /\ MapsAtRest /\ BlocksAtRest
    /\ ConnectionAtRest /\ ParserAtRest /\ LexerAtRest /\ ValuesAtRest /\ CallsAtRest /\ PassesAtRest

\* the checker of the native function op
check_native(op, checker, args, c) ==
    CASE op = "fetch-entry" -> check_special_fetch_entry(checker, args, c)
      [] op = "delete-entry" -> check_special_delete_entry(checker, args, c)
      [] op = "set-entry" -> check_special_set_entry(checker, args, c)
      [] op = "insert-entry" -> check_special_insert_entry(checker, args, c)
CheckMap(op) ==
    /\ checked = None
    /\ \E args \in MapArgs : \E tracker \in Trackers : \E c \in Charges :
         LET checker == [contract_context |-> MapsDefined, cost_track |-> tracker]
         IN  checked' = Checked(op, args, checker, c, check_native(op, checker, args, c))
    /\ UNCHANGED <<vars, parser_vars, lexer_vars, value_vars, call_vars, pass_vars, block_vars>>

Call_fetch_entry == CheckMap("fetch-entry")
Call_delete_entry == CheckMap("delete-entry")
Call_set_entry == CheckMap("set-entry")
Call_insert_entry == CheckMap("insert-entry")

NextMaps ==
    \/ Call_fetch_entry
    \/ Call_delete_entry
    \/ Call_set_entry
    \/ Call_insert_entry

SpecMaps == InitMaps /\ [][NextMaps]_map_vars

(***************************************************************************)
(* Claims about the block connection (checked under Spec).                 *)
(***************************************************************************)
BeginOps == {"begin_block", "begin_block_with_limit"}
CommitOps == {"commit_block", "commit_to_block", "commit_block_will_move"}
SettleOps == CommitOps \cup {"rollback_block"}
TransactionOps == {"run_contract_call", "initialize_smart_contract"}

\* C1: at most one block connection is live per instance.  While a
\* connection is live the instance holds no store, and a begin_block or
\* begin_block_with_limit issued while an opened connection has neither
\* committed nor rolled back panics and yields no connection.
C1_OneLiveConnection ==
    /\ (conn # None => instance.datastore = None)
    /\ (last.op \in BeginOps /\ discarded => IsPanic(last.ret) /\ conn = None)
C1_Witness == last.op = "begin_block" /\ discarded /\ IsPanic(last.ret)

\* C2: rollback_block, commit_block, commit_to_block and
\* commit_block_will_move each hand the store back to the parent instance;
\* as long as no connection was discarded, begin_block and
\* begin_block_with_limit succeed again and destroy returns the store.
C2_StoreReturnsToParent ==
    /\ (last.op \in SettleOps => instance.datastore # None /\ conn = None)
    /\ (last.op \in BeginOps /\ ~discarded => IsOk(last.ret) /\ conn # None)
    /\ (last.op = "destroy" /\ ~discarded => IsOk(last.ret))
C2_Witness ==
    /\ last.op = "begin_block" /\ IsOk(last.ret)
    /\ begun # None /\ ContractKey("A") \in DOMAIN begun[1].marf

\* C3: once a connection was discarded without commit or rollback the
\* instance never regains its store: every later begin_block,
\* begin_block_with_limit and destroy panics and no block is opened.
C3_DiscardIsFatal ==
    discarded =>
        /\ instance.datastore = None
        /\ conn = None
        /\ (last.op \in BeginOps \cup {"destroy"} => IsPanic(last.ret))
C3_Witness == discarded /\ last.op = "destroy" /\ IsPanic(last.ret)

\* C4: begin_block; s; rollback_block leaves the main store and the side
\* store as they were before begin_block, for every sequence s of
\* operations on the open connection.
C4_RollbackRoundTrip ==
    last.op = "rollback_block" => instance.datastore = begun
C4_Witness ==
    /\ last.op = "rollback_block"
    /\ ContractKey("A") \in DOMAIN last.writes
    /\ AnalysisKey("A") \in DOMAIN last.writes
    /\ VarKey("A", "bar") \in DOMAIN last.writes /\ last.writes[VarKey("A", "bar")] = 1
    /\ instance.datastore[1].marf = EmptyKV /\ instance.datastore[1].side = EmptyKV

\* the abort callback's answer in a call of a transaction operation
Abort(call) == call.args[Len(call.args)]
IsCostKind(e) == e[1] \in {"CostBalanceExceeded", "CostOverflow"}
\* an Analysis, Parse or Interpreter error whose payload is a cost failure
WrapsCostFailure(e) ==
    \/ e[1] \in {"Analysis", "Parse"} /\ IsCostKind(e[2])
    \/ e[1] = "Interpreter" /\ e[2][1] = "Unchecked" /\ IsCostKind(e[2][2])
\* the call failed on the cost budget, whatever variant reports it
FailedOnCost(r) == IsErr(r) /\ (r[2][1] = "CostError" \/ WrapsCostFailure(r[2]))

\* C5: a run_contract_call or initialize_smart_contract that returns an
\* error leaves the connection's store exactly as it was before the call:
\* every write of the failed transaction is undone, so a later read in the
\* same block sees the value that held before.
C5_FailedTransactionRolledBack ==
    [][(last'.op \in TransactionOps /\ IsErr(last'.ret))
        => (conn' # None /\ conn'[1].datastore = conn[1].datastore)]_vars
C5_Witness ==
    /\ last.op = "run_contract_call" /\ IsErr(last.ret)
    /\ VarKey("A", "bar") \in DOMAIN last.writes
    /\ conn # None
    /\ MarfedKV_get(conn[1].datastore, VarKey("A", "bar")) # Some(last.writes[VarKey("A", "bar")])

C7_TrackerComesBack ==
    /\ (last.op = "analyze_smart_contract" /\ ~IsPanic(last.ret)
          => conn # None /\ conn[1].cost_track # None)
    /\ (last.op \in {"analyze_smart_contract"} \cup TransactionOps \cup CommitOps
          => ~IsPanic(last.ret))

\* C8: analyze_smart_contract persists nothing, and (cost budget
\* permitting) the analysis of B, whose code calls A, succeeds exactly when
\* an analysis record of A is in the store the connection sees; otherwise
\* it fails with NoSuchContract.
C8_AnalysisNeedsSavedCallee ==
    [][(last'.op = "analyze_smart_contract")
        => /\ conn' # None /\ conn'[1].datastore = conn[1].datastore
           /\ (last'.args = <<"B", "src_B">> /\ ~FailedOnCost(last'.ret)
                 => /\ IsOk(last'.ret) <=> MarfedKV_get(conn[1].datastore, AnalysisKey("A")) # None
                    /\ ~IsOk(last'.ret) => last'.ret = Err(<<"Analysis", <<"NoSuchContract", "A">>>>))]_vars

\* C9: a run_contract_call that pushes the charged runtime past the budget
\* the block was opened with fails with CostError(total, limit), limit
\* being that budget and total.runtime > limit.runtime; its writes are
\* rolled back and each commit of the connection still returns the tracker.
C9_BudgetExceeded ==
    [][(/\ last'.op = "run_contract_call"
        /\ conn[1].cost_track # None /\ conn'[1].cost_track # None
        /\ conn[1].cost_track[1].total.runtime <= conn[1].budget.runtime
        /\ conn'[1].cost_track[1].total.runtime > conn[1].budget.runtime)
        => /\ last'.ret = Err(<<"CostError", conn'[1].cost_track[1].total, conn[1].budget>>)
           /\ last'.ret[2][2].runtime > last'.ret[2][3].runtime
           /\ conn'[1].datastore = conn[1].datastore
           /\ IsOk(commit_block(conn'[1]).ret)
           /\ IsOk(commit_to_block(conn'[1]).ret)
           /\ IsOk(commit_block_will_move(conn'[1]).ret)]_vars
C9_Witness ==
    /\ last.op = "run_contract_call" /\ IsErr(last.ret) /\ last.ret[2][1] = "CostError"
    /\ last.ret[2][2].runtime > last.ret[2][3].runtime
    /\ VarKey("A", "bar") \in DOMAIN last.writes
    /\ conn # None
    /\ MarfedKV_get(conn[1].datastore, VarKey("A", "bar")) # Some(last.writes[VarKey("A", "bar")])

\* C10: an analyze_smart_contract, initialize_smart_contract or
\* run_contract_call that fails on the cost budget or on cost overflow
\* returns the top-level CostError, never an Analysis, Parse or Interpreter
\* error wrapping the cost failure.
C10_CostFailuresPromoted ==
    (last.op \in {"analyze_smart_contract"} \cup TransactionOps /\ IsErr(last.ret))
        => ~WrapsCostFailure(last.ret[2])

\* C11: inside a block a transaction reads what the transactions committed
\* before it in the same block wrote (get-bar returns the value in the
\* connection's view of the store); a block that is opened sees exactly
\* what committed blocks wrote; a commit makes the whole view of the block
\* the committed content, and a rollback leaves the committed content as
\* it was when the block was opened.
C11_BlockWritesOrdered ==
    [][/\ (last'.op = "run_contract_call" /\ last'.args[2] = "get-bar" /\ IsOk(last'.ret)
            => last'.ret = Ok(okay(MarfedKV_get(conn[1].datastore, VarKey(last'.args[1], "bar"))[1])))
       /\ (last'.op \in BeginOps /\ IsOk(last'.ret)
            => /\ conn'[1].datastore.marf_tip = instance.datastore[1].marf
               /\ conn'[1].datastore.side_tx = instance.datastore[1].side)
       /\ (last'.op \in CommitOps
            => /\ instance'.datastore[1].marf = conn[1].datastore.marf_tip
               /\ instance'.datastore[1].side = conn[1].datastore.side_tx)
       /\ (last'.op = "rollback_block"
            => /\ instance'.datastore[1].marf = begun[1].marf
               /\ instance'.datastore[1].side = begun[1].side)]_vars
\* a block reads bar = 1, which a transaction of an earlier, committed block wrote
C11_Witness ==
    /\ last.op = "run_contract_call" /\ last.args[2] = "get-bar" /\ last.ret = Ok(okay(1))
    /\ conn # None
    /\ KVGet(conn[1].datastore.marf, VarKey("A", "bar")) = Some(1)

\* the nested transaction of the last operation was opened and then closed
\* by one commit, or by one roll_back
Committed(call) == call.tx = <<"begin", "commit">>
RolledBack(call) == call.tx = <<"begin", "roll_back">>

\* C21: save_analysis opens a nested transaction and either inserts the
\* record and commits, or, when the id already has a record, rolls back,
\* returns ContractAlreadyExists and leaves the stored record as it was;
\* no operation on the connection replaces a record that is stored.
C21_SaveAnalysisAtomic ==
    [][/\ (last'.op = "save_analysis"
            => IF MarfedKV_get(conn[1].datastore, AnalysisKey(last'.args[1])) = None
               THEN /\ last'.ret = Ok(<<>>) /\ Committed(last')
                    /\ conn'[1].datastore =
                         MarfedKV_put_all(conn[1].datastore,
                                          KVPut(EmptyKV, AnalysisKey(last'.args[1]), last'.args[2]))
               ELSE /\ last'.ret = Err(<<"ContractAlreadyExists", last'.args[1]>>)
                    /\ RolledBack(last')
                    /\ conn'[1].datastore = conn[1].datastore)
       /\ (conn # None /\ conn' # None
            => \A id \in ContractIds :
                 MarfedKV_get(conn[1].datastore, AnalysisKey(id)) # None
                   => MarfedKV_get(conn'[1].datastore, AnalysisKey(id))
                        = MarfedKV_get(conn[1].datastore, AnalysisKey(id)))]_vars
\* a second save for the same id, with another record, was refused
C21_Witness ==
    /\ last.op = "save_analysis" /\ last.ret = Err(<<"ContractAlreadyExists", last.args[1]>>)
    /\ conn # None
    /\ MarfedKV_get(conn[1].datastore, AnalysisKey(last.args[1])) \notin {None, Some(last.args[2])}

\* C22: with_clarity_db commits its nested transaction exactly when the
\* closure returns Ok and rolls it back exactly when it returns Err;
\* with_clarity_db_readonly rolls it back whatever the closure returns, so
\* no write of the closure is in the store afterwards; both return the
\* closure's result.
C22_ClosureTransactions ==
    [][/\ (last'.op = "with_clarity_db"
            => /\ last'.ret = last'.args[1].ret
               /\ Committed(last') <=> IsOk(last'.args[1].ret)
               /\ RolledBack(last') <=> IsErr(last'.args[1].ret)
               /\ conn'[1].datastore =
                    IF IsOk(last'.args[1].ret)
                    THEN MarfedKV_put_all(conn[1].datastore, last'.args[1].writes)
                    ELSE conn[1].datastore)
       /\ (last'.op = "with_clarity_db_readonly"
            => /\ last'.ret = last'.args[1].ret
               /\ RolledBack(last')
               /\ conn'[1].datastore = conn[1].datastore)]_vars
\* a read-only closure wrote bar, returned Ok, and the store does not hold the write
C22_Witness ==
    /\ last.op = "with_clarity_db_readonly" /\ IsOk(last.ret)
    /\ VarKey("A", "bar") \in DOMAIN last.args[1].writes
    /\ conn # None
    /\ MarfedKV_get(conn[1].datastore, VarKey("A", "bar")) # Some(last.args[1].writes[VarKey("A", "bar")])

NestedOps ==
    {"with_clarity_db", "with_clarity_db_readonly", "save_analysis",
     "run_contract_call", "initialize_smart_contract", "eval_read_only"}
\* the transactions a call left open: those it began less those it closed
RECURSIVE NestingDepth(_)
NestingDepth(tx) ==
    IF tx = <<>> THEN 0
    ELSE NestingDepth(Tail(tx)) + (IF Head(tx) = "begin" THEN 1 ELSE -1)

\* C30: every operation of an open connection that opens a nested
\* transaction closes it with exactly one commit or exactly one roll_back
\* before it returns, on every return path; when it has returned no nested
\* transaction is open, as right after begin_block.
C30_NestedTransactionsClosed ==
    /\ (last.op \in NestedOps /\ ~IsPanic(last.ret)
          => (Committed(last) \/ RolledBack(last)) /\ NestingDepth(last.tx) = 0)
    /\ (last.op \in BeginOps => NestingDepth(last.tx) = 0)
\* every one of the six operations can return; here a failed closure of
\* with_clarity_db, whose transaction was rolled back
C30_Witness ==
    /\ last.op = "with_clarity_db" /\ IsErr(last.ret) /\ RolledBack(last)
    /\ last.args[1].writes # EmptyKV

(***************************************************************************)
(* Claims about parse_lexed (checked under SpecParser).                    *)
(***************************************************************************)
\* the item the step consumes, and the frame it arrives at
Consumes(kind) == Len(fed') = Len(fed) + 1 /\ fed'[Len(fed')][1].item = kind
AtNoFrame == parse_stack = <<>>
AtFrame(context) == parse_stack # <<>> /\ parse_stack[Len(parse_stack)].context = context
\* fed followed by one more item
FedThen(item) == Append(fed', <<item, 1, Len(fed') + 1>>)

\* C12: `)` with no open frame is ClosingParenthesisUnexpected, `)` at a
\* tuple frame ClosingTupleLiteralExpected, `}` with no open frame
\* ClosingTupleLiteralUnexpected, `}` at a list frame
\* ClosingParenthesisExpected; a closer that matches its frame is no error;
\* and the mismatch decides the parse whatever item follows it.
C12_CloserMismatches ==
    [][/\ (Consumes("RightParen") /\ AtNoFrame
            => parse_result' = Some(ParseError("ClosingParenthesisUnexpected")))
       /\ (Consumes("RightParen") /\ AtFrame("CollectTuple")
            => parse_result' = Some(ParseError("ClosingTupleLiteralExpected")))
       /\ (Consumes("RightCurly") /\ AtNoFrame
            => parse_result' = Some(ParseError("ClosingTupleLiteralUnexpected")))
       /\ (Consumes("RightCurly") /\ AtFrame("CollectList")
            => parse_result' = Some(ParseError("ClosingParenthesisExpected")))
       /\ (Consumes("RightParen") /\ AtFrame("CollectList") => parse_result' = None)
       /\ (Consumes("RightCurly") /\ AtFrame("CollectTuple") => parse_result' = None)
       /\ ((Consumes("RightParen") \/ Consumes("RightCurly")) /\ parse_result' # None
            => \A item \in Items : parse_lexed(FedThen(item)) = parse_result'[1])
       /\ (parse_result # None => fed' = fed /\ parse_result' = parse_result)]_parser_vars
\* `)` met an open tuple that is nested in a list
C12_Witness ==
    /\ parse_result = Some(ParseError("ClosingTupleLiteralExpected"))
    /\ Len(parse_stack) = 2
    /\ parse_stack[1].context = "CollectList" /\ parse_stack[2].context = "CollectTuple"
    /\ fed[Len(fed)][1] = RightParen

\* C13 as stated: `)` at a tuple frame fails with ClosingParenthesisExpected
\* and `}` at a list frame with ClosingTupleLiteralExpected.
C13_AsStated ==
    [][/\ (Consumes("RightParen") /\ AtFrame("CollectTuple")
            => parse_result' = Some(ParseError("ClosingParenthesisExpected")))
       /\ (Consumes("RightCurly") /\ AtFrame("CollectList")
            => parse_result' = Some(ParseError("ClosingTupleLiteralExpected")))]_parser_vars
\* C13 amended: the error names the closer the open frame wants.  parse_lexed
\* of the items up to a `)` that meets a tuple frame is
\* ClosingTupleLiteralExpected, and up to a `}` that meets a list frame it
\* is ClosingParenthesisExpected.
C13_ErrorNamesWantedCloser ==
    [][/\ (Consumes("RightParen") /\ AtFrame("CollectTuple")
            => parse_lexed(fed') = ParseError("ClosingTupleLiteralExpected"))
       /\ (Consumes("RightCurly") /\ AtFrame("CollectList")
            => parse_lexed(fed') = ParseError("ClosingParenthesisExpected"))]_parser_vars
\* `}` met an open list that holds one atom
C13_Witness ==
    /\ parse_result = Some(ParseError("ClosingParenthesisExpected"))
    /\ fed[Len(fed)][1] = RightCurly
    /\ AtFrame("CollectList")
    /\ Len(parse_stack[Len(parse_stack)].list) = 1
    /\ parse_stack[Len(parse_stack)].list[1].pre_expr = "Atom"

\* Every closer in items[i..] closes the frame opened last: open is the
\* sequence of contexts still open.
RECURSIVE Matched(_, _, _)
Matched(items, i, open) ==
    IF i > Len(items) THEN open = <<>>
    ELSE LET it == items[i][1].item
         IN  CASE it = "LeftParen" -> Matched(items, i + 1, Append(open, "CollectList"))
               [] it = "LeftCurly" -> Matched(items, i + 1, Append(open, "CollectTuple"))
               [] it = "RightParen" ->
                    open # <<>> /\ open[Len(open)] = "CollectList" /\ Matched(items, i + 1, pop(open))
               [] it = "RightCurly" ->
                    open # <<>> /\ open[Len(open)] = "CollectTuple" /\ Matched(items, i + 1, pop(open))
               [] OTHER -> Matched(items, i + 1, open)
\* The columns at which the top-level forms of items[i..] start, in source
\* order: depth counts the brackets open.
RECURSIVE TopLevelStarts(_, _, _)
TopLevelStarts(items, i, depth) ==
    IF i > Len(items) THEN <<>>
    ELSE LET it == items[i][1].item
         IN  CASE it \in {"LeftParen", "LeftCurly"} ->
                    (IF depth = 0 THEN <<items[i][3]>> ELSE <<>>) \o TopLevelStarts(items, i + 1, depth + 1)
               [] it \in {"RightParen", "RightCurly"} -> TopLevelStarts(items, i + 1, depth - 1)
               [] it \in {"ColonSeparator", "CommaSeparator", "Whitespace"} -> TopLevelStarts(items, i + 1, depth)
               [] OTHER -> (IF depth = 0 THEN <<items[i][3]>> ELSE <<>>) \o TopLevelStarts(items, i + 1, depth)

\* C14: at the end of the items an open frame, list or tuple, makes the
\* result ClosingParenthesisExpected; the result is Ok only at the end of
\* the items, with every frame closed by its matching closer, and then the
\* top-level nodes are the top-level forms in source order.
C14_UnclosedFrames ==
    [][(parse_result = None /\ parse_result' # None)
        => /\ (fed' = fed /\ parse_stack # <<>>
                => parse_result' = Some(ParseError("ClosingParenthesisExpected")))
           /\ (IsOk(parse_result'[1])
                => /\ fed' = fed
                   /\ parse_stack = <<>>
                   /\ Matched(fed, 1, <<>>)
                   /\ [k \in 1..Len(parse_result'[1][2]) |-> parse_result'[1][2][k].span[2]]
                        = TopLevelStarts(fed, 1, 0))]_parser_vars
\* the items ended with a tuple still open (the last item is an atom, which
\* cannot fail)
C14_Witness ==
    /\ parse_result = Some(ParseError("ClosingParenthesisExpected"))
    /\ AtFrame("CollectTuple")
    /\ fed[Len(fed)][1].item = "Variable"

\* the first item after column pos that is not whitespace (Whitespace when
\* there is none)
RECURSIVE NextItem(_, _)
NextItem(items, pos) ==
    IF pos + 1 > Len(items) THEN Whitespace
    ELSE IF items[pos + 1][1] = Whitespace THEN NextItem(items, pos + 1)
    ELSE items[pos + 1][1]
\* tuple node t has `:` after every even-indexed child and `,` after every
\* odd-indexed child but a final one
Separated(t) ==
    \A j \in 1..Len(t.children) :
        LET nx == NextItem(fed, t.children[j].span[4])
        IN  IF j % 2 = 1 THEN nx = ColonSeparator
            ELSE j < Len(t.children) => nx = CommaSeparator
\* in tuple node t a `:` follows only even-indexed children and a `,` only
\* odd-indexed children
SeparatorsInPlace(t) ==
    /\ NextItem(fed, t.span[2]) \notin {ColonSeparator, CommaSeparator}
    /\ \A j \in 1..Len(t.children) :
        LET nx == NextItem(fed, t.children[j].span[4])
        IN  /\ nx = ColonSeparator => j % 2 = 1
            /\ nx = CommaSeparator => j % 2 = 0
RECURSIVE AllTuplesSeparated(_)
AllTuplesSeparated(nodes) ==
    \A k \in 1..Len(nodes) :
        /\ nodes[k].pre_expr = "Tuple" => Separated(nodes[k])
        /\ AllTuplesSeparated(nodes[k].children)
RECURSIVE AllSeparatorsInPlace(_)
AllSeparatorsInPlace(nodes) ==
    \A k \in 1..Len(nodes) :
        /\ nodes[k].pre_expr = "Tuple" => SeparatorsInPlace(nodes[k])
        /\ AllSeparatorsInPlace(nodes[k].children)

\* C15 as stated: every tuple literal the parser accepts has `:` after
\* every even-indexed child and `,` after every odd-indexed child, the
\* final child excepted.
C15_AsStated ==
    (parse_result # None /\ IsOk(parse_result[1])) => AllTuplesSeparated(parse_result[1][2])
\* C15 amended: separators are optional but must be in place.  A `:` is
\* consumed only at a tuple frame holding an odd number of children (after a
\* key) and is ColonSeparatorUnexpected anywhere else; a `,` is consumed
\* only at a tuple frame holding a non-zero even number of children (after
\* a value) and is CommaSeparatorUnexpected anywhere else; so in every
\* accepted tuple a `:` follows only keys and a `,` only values.
C15_SeparatorsInPlace ==
    [][/\ (Consumes("ColonSeparator")
            => IF AtFrame("CollectTuple") /\ Len(parse_stack[Len(parse_stack)].list) % 2 = 1
               THEN parse_result' = None /\ UNCHANGED <<parse_stack, output_list>>
               ELSE parse_result' = Some(ParseError("ColonSeparatorUnexpected")))
       /\ (Consumes("CommaSeparator")
            => IF /\ AtFrame("CollectTuple")
                  /\ Len(parse_stack[Len(parse_stack)].list) > 0
                  /\ Len(parse_stack[Len(parse_stack)].list) % 2 = 0
               THEN parse_result' = None /\ UNCHANGED <<parse_stack, output_list>>
               ELSE parse_result' = Some(ParseError("CommaSeparatorUnexpected")))
       /\ (parse_result = None /\ parse_result' # None /\ IsOk(parse_result'[1])
            => AllSeparatorsInPlace(parse_result'[1][2]))]_parser_vars
\* a tuple of a key and a value is accepted though no `:` was fed
C15_Witness ==
    /\ parse_result # None /\ IsOk(parse_result[1])
    /\ Len(parse_result[1][2]) = 1
    /\ parse_result[1][2][1].pre_expr = "Tuple"
    /\ Len(parse_result[1][2][1].children) = 2
    /\ \A k \in 1..Len(fed) : fed[k][1] # ColonSeparator

(***************************************************************************)
(* Claims about lex and parse (checked under SpecLexer).                   *)
(***************************************************************************)
\* The tokens of s from position p on as the matchers alone cut them, with
\* no regard to the context: [handler, start, end, value], end being the
\* length of the whole match.
RECURSIVE Matches(_, _)
Matches(s, p) ==
    IF p > Len(s) \/ first_match(s, p).handler = "None" THEN <<>>
    ELSE LET m == first_match(s, p)
         IN  <<[handler |-> m.handler, start |-> p, end |-> m.end, value |-> m.value]>>
                \o Matches(s, p + m.end)
TextOf(s, m) == SubSeq(s, m.start, m.start + m.end - 1)
AtomHandlers == {"Variable", "StringLiteral", "UIntLiteral", "IntLiteral", "TraitReferenceLiteral",
                 "SugaredContractIdentifierLiteral", "SugaredFieldIdentifierLiteral"}
CloserHandlers == {"Whitespace", "RParens", "RCurly", "Comma", "Colon"}
ResetHandlers == {"Whitespace", "LParens", "LCurly", "Comma", "Colon"}
AtomItems == {"Variable", "LiteralValue", "TraitReference", "SugaredContractIdentifier",
              "SugaredFieldIdentifier", "FieldIdentifier"}
CloserItems == {"Whitespace", "RightParen", "RightCurly", "CommaSeparator", "ColonSeparator"}
\* token k of ms wants a closer after it and token k + 1 is none
Unseparated(ms, k) ==
    k < Len(ms) /\ ms[k].handler \notin ResetHandlers /\ ms[k + 1].handler \notin CloserHandlers

\* C16: in a token stream that lex returns, the token after a literal, an
\* identifier or a variable is whitespace, `)`, `}`, `,` or `:`; and a
\* source in which such a token is directly followed by any other token
\* fails, with SeparatorExpected carrying the text of the following token
\* when nothing before it failed.
C16_SeparatorExpected ==
    lexed # None =>
        LET r == lexed[1]
            ms == Matches(input, 1)
        IN  /\ IsOk(r) => \A k \in 1..(Len(r[2]) - 1) :
                             r[2][k][1].item \in AtomItems => r[2][k + 1][1].item \in CloserItems
            /\ \A k \in 1..(Len(ms) - 1) :
                 (ms[k].handler \in AtomHandlers /\ ms[k + 1].handler \notin CloserHandlers)
                    => /\ IsErr(r)
                       /\ ((/\ \A j \in 1..k : IsOk(token_of(ms[j]))
                            /\ \A j \in 1..(k - 1) : ~Unseparated(ms, j))
                              => r = ParseErrorOf("SeparatorExpected", TextOf(input, ms[k + 1])))
\* `1a` is not split into 1 and a
C16_Witness ==
    /\ lexed = Some(ParseErrorOf("SeparatorExpected", <<"a">>))
    /\ input[1] = "1" /\ input[2] = "a"

\* the source with every other line terminator replaced by "\n"
WithLineFeeds(s) == [k \in 1..Len(s) |-> IF s[k] \in OtherLineTerminators THEN "\n" ELSE s[k]]
\* the position at which the matchers stop: one past the last token
StopsAt(s) ==
    LET ms == Matches(s, 1)
    IN  IF ms = <<>> THEN 1 ELSE ms[Len(ms)].start + ms[Len(ms)].end

\* C17: a source that holds line terminators other than "\n" and parses
\* once they are replaced by "\n" fails, in lex and in parse, with
\* FailedParsingRemainder carrying the source from the first of them on;
\* such a terminator, a character outside ASCII or a `#` starts no token;
\* lex fails when it comes to a character at which no matcher matches, and
\* fails with FailedParsingRemainder exactly then, carrying the source from
\* that character on.
C17_OnlyLineFeed ==
    lexed # None =>
        LET r == lexed[1]
            stop == StopsAt(input)
            crs == {k \in 1..Len(input) : input[k] \in OtherLineTerminators}
        IN  /\ (crs # {} /\ IsOk(parse(WithLineFeeds(input))))
                => /\ \A k \in crs : (\A j \in crs : k <= j)
                        => r = ParseErrorOf("FailedParsingRemainder", SubSeq(input, k, Len(input)))
                   /\ parsed # None => parsed[1] = r
            /\ \A k \in 1..Len(input) : input[k] \in OtherLineTerminators \cup {"#"} => first_match(input, k).handler = "None"
            /\ stop <= Len(input) => IsErr(r)
            /\ (stop <= Len(input) /\ \A j \in 1..Len(Matches(input, 1)) :
                    IsOk(token_of(Matches(input, 1)[j])) /\ ~Unseparated(Matches(input, 1), j))
                => r = ParseErrorOf("FailedParsingRemainder", SubSeq(input, stop, Len(input)))
            /\ (IsErr(r) /\ r[2][1] = "FailedParsingRemainder")
                => /\ stop <= Len(input)
                   /\ r[2][2] = SubSeq(input, stop, Len(input))
\* `a`, carriage return, `a` was lexed and parsed
C17_Witness ==
    /\ input = <<"a", "\r", "a">>
    /\ lexed = Some(ParseErrorOf("FailedParsingRemainder", <<"\r", "a">>))
    /\ parsed = lexed
    /\ IsOk(parse(<<"a", "\n", "a">>))

\* the "\n" of s before position p
LineFeedsBefore(s, p) == {j \in 1..(p - 1) : s[j] = "\n"}
LastLineFeedBefore(s, p) ==
    IF LineFeedsBefore(s, p) = {} THEN 0
    ELSE CHOOSE j \in LineFeedsBefore(s, p) : \A i \in LineFeedsBefore(s, p) : i <= j

\* C18 as stated: every token lex returns is reported on line 1 + the number
\* of "\n" before it and at column 1 + the number of characters between it
\* and the "\n" before it (or the start of the source).
C18_LineAndColumn ==
    (lexed # None /\ IsOk(lexed[1])) =>
        LET ms == Matches(input, 1)
        IN  \A k \in 1..Len(lexed[1][2]) :
                /\ lexed[1][2][k][2] = 1 + Cardinality(LineFeedsBefore(input, ms[k].start))
                /\ lexed[1][2][k][3] = ms[k].start - LastLineFeedBefore(input, ms[k].start)

\* the leaves of a forest, in source order
RECURSIVE Leaves(_)
Leaves(nodes) ==
    IF nodes = <<>> THEN <<>>
    ELSE (IF Head(nodes).pre_expr \in {"List", "Tuple"} THEN Leaves(Head(nodes).children) ELSE <<Head(nodes)>>)
            \o Leaves(Tail(nodes))
IsAtomMatch(m) == m.handler \in AtomHandlers

\* C19 as stated, for the leaves: the node of a leaf token ends on the line
\* it starts on, token_len - 1 columns after its start column, token_len
\* being the number of characters of the whole token.
C19_LeafSpans ==
    (parsed # None /\ IsOk(parsed[1])) =>
        LET tokens == SelectSeq(Matches(input, 1), IsAtomMatch)
            leaves == Leaves(parsed[1][2])
        IN  \A k \in 1..Len(leaves) :
                /\ leaves[k].span[3] = leaves[k].span[1]
                /\ leaves[k].span[4] = leaves[k].span[2] + tokens[k].end - 1

(***************************************************************************)
(* Claims about the Value constructors (checked under SpecValues).         *)
(***************************************************************************)
\* C20: some, okay and error fail with ValueTooLarge when the size of the
\* wrapped value plus 1 is above 1,048,576, otherwise with
\* TypeSignatureTooDeep when its depth plus 1 is above 32, and otherwise
\* succeed; and every value made by a chain of some, okay, error, list_from,
\* buff_from and from_data has a size of at most 1,048,576 and a depth of
\* at most 32.
C20_ValueLimits ==
    [][/\ (constructed' # constructed /\ constructed'[1].op \in {"some", "okay", "error"})
            => IF current[1].size + 1 > 1048576
               THEN constructed'[1].ret = Err(<<"Unchecked", "ValueTooLarge">>)
               ELSE IF current[1].depth + 1 > 32
               THEN constructed'[1].ret = Err(<<"Unchecked", "TypeSignatureTooDeep">>)
               ELSE /\ IsOk(constructed'[1].ret)
                    /\ current' = Some(constructed'[1].ret[2])
       /\ current' # None => current'[1].size <= 1048576 /\ current'[1].depth <= 32]_value_vars
\* a value at both limits was wrapped, and the size was reported
C20_Witness ==
    /\ current # None /\ current[1].size = 1048576 /\ current[1].depth = 32
    /\ constructed # None /\ constructed[1].op \in {"some", "okay", "error"}
    /\ constructed[1].ret = Err(<<"Unchecked", "ValueTooLarge">>)


(***************************************************************************)
(* Claims about apply and the call stack (checked under SpecCalls).        *)
(***************************************************************************)
CircularReference(function) == Err(<<"Unchecked", <<"CircularReference", <<function.identifier>>>>>>)
MaxStackDepthReached == Err(<<"Runtime", "MaxStackDepthReached", None>>)
\* the step is a call of apply
Applies == applied' # applied
Pushed(function) ==
    /\ env'[1].call_stack.stack = Append(env[1].call_stack.stack, function.identifier)
    /\ active' = active + 1
    /\ resp' = None
Refused(ret) == env' = env /\ active' = active /\ resp' = Some(ret)

\* C25 as stated: the call stack never holds more than 64 applications:
\* at a depth of 64 or more apply pushes nothing and fails with
\* MaxStackDepthReached, whatever the kind of function.
C25_AsStated ==
    [][Applies
        => /\ CallStack_depth(env'[1].call_stack) <= MAX_CALL_STACK_DEPTH
           /\ applied'[1].depth >= MAX_CALL_STACK_DEPTH => Refused(MaxStackDepthReached)]_call_vars
\* C25: the call stack never holds more than 64 applications: at a depth
\* of 64 or more apply pushes nothing and fails, with CircularReference
\* when the function is a user function that is already on the stack and
\* with MaxStackDepthReached otherwise.
C25_DepthBounded ==
    [][Applies
        => /\ CallStack_depth(env'[1].call_stack) <= MAX_CALL_STACK_DEPTH
           /\ applied'[1].depth >= MAX_CALL_STACK_DEPTH
                => Refused(IF track_recursion(applied'[1].function) /\ applied'[1].contained
                           THEN CircularReference(applied'[1].function)
                           ELSE MaxStackDepthReached)]_call_vars
\* a special function applied at depth 64, inside 64 applications of itself, was refused
C25_Witness ==
    /\ applied # None /\ applied[1].depth = MAX_CALL_STACK_DEPTH
    /\ applied[1].function = SpecialFunction("if")
    /\ resp = Some(MaxStackDepthReached)
    /\ CallStack_depth(env[1].call_stack) = MAX_CALL_STACK_DEPTH

\* C26: applying a user function whose identifier is on the call stack
\* fails with CircularReference and nothing is pushed or evaluated; native
\* and special functions are not tracked: below the depth limit they are
\* pushed even when their identifier is on the stack already.
C26_CircularByMembership ==
    [][Applies
        => /\ (track_recursion(applied'[1].function) /\ applied'[1].contained)
                => Refused(CircularReference(applied'[1].function))
           /\ (~track_recursion(applied'[1].function) /\ applied'[1].depth < MAX_CALL_STACK_DEPTH)
                => Pushed(applied'[1].function) /\ env'[1].call_stack.set = env[1].call_stack.set
           /\ (track_recursion(applied'[1].function) /\ ~applied'[1].contained
                 /\ applied'[1].depth < MAX_CALL_STACK_DEPTH)
                => Pushed(applied'[1].function)
                     /\ CallStack_contains(env'[1].call_stack, applied'[1].function.identifier)]_call_vars
\* f was applied again inside itself, with a native function nested in itself in between
C26_Witness ==
    /\ applied # None /\ applied[1].function = UserFunction("f") /\ applied[1].contained
    /\ resp = Some(CircularReference(UserFunction("f")))
    /\ env[1].call_stack.stack = <<"f", "+", "+">>


(***************************************************************************)
(* Claims about tuple construction (checked under SpecTuples).             *)
(***************************************************************************)
\* x is before y as strings are ordered: x is a proper prefix of y, or at
\* the first place where they differ x has a and y has b
LexBefore(x, y) ==
    \E k \in 1..Len(y) :
        /\ Len(x) >= k - 1
        /\ \A m \in 1..(k - 1) : x[m] = y[m]
        /\ Len(x) = k - 1 \/ (x[k] = "a" /\ y[k] = "b")
NamesOf(fields) == [i \in 1..Len(fields) |-> fields[i][1]]
Repeats(fields, j) == \E i \in 1..(j - 1) : fields[i][1] = fields[j][1]

\* C27: from_data rejects a field list in which a name occurs twice with
\* NameAlreadyUsed (naming the first field that repeats an earlier name);
\* otherwise, for values within the limits of a type, it yields a tuple
\* that holds exactly the fields given, each name once, in the
\* lexicographic order of the names whatever the order given.
C27_TupleFields ==
    constructed # None /\ constructed[1].op = "from_data" =>
        LET fields == constructed[1].fields
            ret == constructed[1].ret
        IN  IF \E j \in 1..Len(fields) : Repeats(fields, j)
            THEN \E j \in 1..Len(fields) :
                    /\ Repeats(fields, j)
                    /\ \A i \in 1..(j - 1) : ~Repeats(fields, i)
                    /\ ret = Err(<<"Unchecked", "NameAlreadyUsed", fields[j][1]>>)
            ELSE /\ IsOk(ret)
                 /\ Len(ret[2].data_map) = Len(fields)
                 /\ {ret[2].data_map[i] : i \in 1..Len(fields)} = {fields[i] : i \in 1..Len(fields)}
                 /\ \A i, j \in 1..Len(fields) :
                      i < j => LexBefore(ret[2].data_map[i][1], ret[2].data_map[j][1])
\* the fields b, ab, a were given and the tuple holds a, ab, b
C27_Witness ==
    /\ constructed # None /\ IsOk(constructed[1].ret)
    /\ NamesOf(constructed[1].fields) = << <<"b">>, <<"a", "b">>, <<"a">> >>
    /\ NamesOf(constructed[1].ret[2].data_map) = << <<"a">>, <<"a", "b">>, <<"b">> >>


(***************************************************************************)
(* Claims about build_ast and run_analysis (checked under SpecPasses).     *)
(***************************************************************************)
\* the charge exceeds what the tracker has left
Exceeds(tracker, charge) == tracker.total.runtime + charge > tracker.limit.runtime
IsCostError(ret) == IsErr(ret) /\ ret[2][1] \in {"CostOverflow", "CostBalanceExceeded"}
\* steps is the start of order, up to and including the first step for
\* which FailsAt holds, or all of order when there is none
StopsAtFirstFailure(steps, order, FailsAt(_)) ==
    /\ Len(steps) \in 1..Len(order)
    /\ steps = SubSeq(order, 1, Len(steps))
    /\ \A i \in 1..(Len(steps) - 1) : ~FailsAt(order[i])
    /\ Len(steps) < Len(order) => FailsAt(order[Len(steps)])

AstOrder ==
    <<"AST_PARSE", "parse", "StackDepthChecker", "ExpressionIdentifier", "DefinitionSorter",
      "TraitsResolver", "SugarExpander">>
\* the error a step of build_ast fails with
AstFailure(step, src, ret) ==
    IF step = "AST_PARSE" THEN IsCostError(ret)
    ELSE IF step = "parse" THEN ret = Err(<<"ClosingParenthesisUnexpected">>)
    ELSE IF step = "DefinitionSorter" THEN IsCostError(ret) \/ ret = Err(<<"CircularReference">>)
    ELSE IF step = "StackDepthChecker" THEN ret = Err(<<"ExpressionStackDepthTooDeep">>)
    ELSE IF step = "ExpressionIdentifier" THEN ret = Err(<<"TooManyExpressions">>)
    ELSE IF step = "TraitsResolver" THEN ret = Err(<<"TraitReferenceUnknown", "use-trait">>)
    ELSE ret = Err(<<"TraitReferenceUnknown", "reference">>)

\* C28: build_ast runs, in this order, the charge of AST_PARSE, parse,
\* StackDepthChecker, ExpressionIdentifier, DefinitionSorter,
\* TraitsResolver, SugarExpander; the first step that fails ends it with
\* the error of that step and no later step runs; a ContractAST is
\* returned only when all steps have succeeded.
C28_AstStepsInOrder ==
    ran # None /\ ran[1].op = "build_ast" =>
        LET src == ran[1].args[2]
            tracker == ran[1].args[3]
            FailsAt(step) ==
                \/ step = "AST_PARSE" /\ Exceeds(tracker, ran[1].args[4])
                \/ step = "DefinitionSorter" /\ Exceeds(tracker, ran[1].args[4] + ran[1].args[5])
                \/ step \in SourceDefects(src)
            final == ran[1].steps[Len(ran[1].steps)]
        IN  /\ StopsAtFirstFailure(ran[1].steps, AstOrder, FailsAt)
            /\ IF FailsAt(final)
               THEN AstFailure(final, src, ran[1].ret)
               ELSE ran[1].steps = AstOrder /\ ran[1].ret = Ok(<<ran[1].args[1], src>>)
\* a source that is too deep and has a circular definition was stopped by
\* the StackDepthChecker
C28_Witness ==
    /\ ran # None /\ ran[1].op = "build_ast" /\ ran[1].args[2] = "src_too_deep_circular"
    /\ ran[1].steps = <<"AST_PARSE", "parse", "StackDepthChecker">>
    /\ ran[1].ret = Err(<<"ExpressionStackDepthTooDeep">>)

AnalysisOrder(save_contract) ==
    <<"ReadOnlyChecker", "TypeChecker", "TraitChecker">>
      \o (IF save_contract THEN <<"insert_contract">> ELSE <<>>)

\* C29: run_analysis runs ReadOnlyChecker, TypeChecker, TraitChecker in
\* that order inside one transaction of the analysis db and stops at the
\* first pass that fails; it inserts the contract only when save_contract
\* is set and the three passes succeeded; it commits on success and rolls
\* back on every error, a failed insert included, and a failed analysis
\* leaves the analysis db as it was.
C29_AnalysisInOneTransaction ==
    [][(ran' # ran /\ ran'[1].op = "run_analysis") =>
        LET id == ran'[1].args[1]
            src == ran'[1].args[2]
            tracker == ran'[1].args[3]
            save_contract == ran'[1].args[5]
            FailsAt(step) ==
                \/ step = "TypeChecker" /\ Exceeds(tracker, ran'[1].args[4])
                \/ step = "TypeChecker" /\ src = "src_B"
                     /\ MarfedKV_get(analysis_store, AnalysisKey("A")) = None
                \/ step = "insert_contract" /\ MarfedKV_get(analysis_store, AnalysisKey(id)) # None
                \/ step \in SourceDefects(src)
            final == ran'[1].steps[Len(ran'[1].steps)]
        IN  /\ StopsAtFirstFailure(ran'[1].steps, AnalysisOrder(save_contract), FailsAt)
            /\ IF FailsAt(final)
               THEN /\ IsErr(ran'[1].ret)
                    /\ RolledBack(ran'[1])
                    /\ analysis_store' = analysis_store
               ELSE /\ ran'[1].ret = Ok(<<id, src>>)
                    /\ Committed(ran'[1])
                    /\ analysis_store' =
                         IF save_contract
                         THEN MarfedKV_put_all(analysis_store, KVPut(EmptyKV, AnalysisKey(id), src))
                         ELSE analysis_store]_pass_vars
\* a second analysis of a saved contract passed the three checkers, failed
\* at the insert and was rolled back
C29_Witness ==
    /\ ran # None /\ ran[1].op = "run_analysis"
    /\ ran[1].steps = <<"ReadOnlyChecker", "TypeChecker", "TraitChecker", "insert_contract">>
    /\ ran[1].ret = Err(<<"ContractAlreadyExists", ran[1].args[1]>>)
    /\ RolledBack(ran[1])
    /\ MarfedKV_get(analysis_store, AnalysisKey(ran[1].args[1])) = Some(ValidSource(ran[1].args[1]))

(***************************************************************************)
(* Claims about the cost a block connection holds.                         *)
(***************************************************************************)
CostHeld(c) == c.cost_track[1].total.runtime

\* C31: the cost held by an open block connection accumulates
\* monotonically: whatever operation returns on a connection that holds a
\* tracker, the connection holds a tracker afterwards and its total is not
\* below the total before, a transaction that was rolled back included.
C31_CostAccumulates ==
    [][(/\ conn # None /\ conn' # None
        /\ conn[1].cost_track # None
        /\ ~IsPanic(last'.ret))
        => /\ conn'[1].cost_track # None
           /\ CostHeld(conn'[1]) >= CostHeld(conn[1])]_vars

(***************************************************************************)
(* Claims about the separators of tuple literals (checked under            *)
(* SpecParser).                                                            *)
(***************************************************************************)
\* items standing one after the other on line 1
Positioned(items) == [k \in 1..Len(items) |-> <<items[k], 1, k>>]
RECURSIVE CountNodes(_)
CountNodes(nodes) ==
    IF nodes = <<>> THEN 0
    ELSE 1 + CountNodes(Head(nodes).children) + CountNodes(Tail(nodes))
\* the items fed that make a node: an opener makes the node its closer
\* finishes, a variable makes an atom
NodeItems(items) == Cardinality({k \in 1..Len(items) : items[k][1].item \in {"LeftParen", "LeftCurly", "Variable"}})
TopChildren == Len(parse_stack[Len(parse_stack)].list)
SeparatorInPlace(kind) ==
    IF ~AtFrame("CollectTuple") THEN FALSE
    ELSE IF kind = "ColonSeparator" THEN TopChildren % 2 = 1
    ELSE TopChildren > 0 /\ TopChildren % 2 = 0
SeparatorUnexpected(kind) ==
    IF kind = "ColonSeparator" THEN ParseError("ColonSeparatorUnexpected")
    ELSE ParseError("CommaSeparatorUnexpected")

\* C32: a `:` is accepted only when the innermost open frame is a tuple
\* holding an odd number of children and a `,` only when it is a tuple
\* holding an even, non-zero number of children; at top level, directly
\* inside a list frame or at the wrong parity the parse fails with
\* ColonSeparatorUnexpected / CommaSeparatorUnexpected; `{}` is accepted,
\* `{,}` and `{:}` are rejected; an accepted separator adds no node, so an
\* accepted input has exactly one node for each opener and each atom.
C32_SeparatorsOnlyInTuples ==
    [][/\ \A kind \in {"ColonSeparator", "CommaSeparator"} :
            Consumes(kind) =>
                /\ (SeparatorInPlace(kind)
                      => parse_result' = None /\ UNCHANGED <<parse_stack, output_list>>)
                /\ (AtNoFrame \/ AtFrame("CollectList") \/ ~SeparatorInPlace(kind)
                      => parse_result' = Some(SeparatorUnexpected(kind)))
       /\ (parse_result = None /\ parse_result' # None /\ IsOk(parse_result'[1])
            => CountNodes(parse_result'[1][2]) = NodeItems(fed'))
       /\ parse_lexed(Positioned(<<LeftCurly, RightCurly>>))
            = Ok(<<set_span(PreSymbolicExpression("Tuple", <<>>, <<>>), 1, 1, 1, 2)>>)
       /\ parse_lexed(Positioned(<<LeftCurly, CommaSeparator, RightCurly>>))
            = ParseError("CommaSeparatorUnexpected")
       /\ parse_lexed(Positioned(<<LeftCurly, ColonSeparator, RightCurly>>))
            = ParseError("ColonSeparatorUnexpected")]_parser_vars
\* `{a:a,}` was accepted: both separators were consumed and the tuple has
\* the two children only
C32_Witness ==
    /\ parse_result # None /\ IsOk(parse_result[1])
    /\ \E k \in 1..Len(fed) : fed[k][1] = ColonSeparator
    /\ \E k \in 1..Len(fed) : fed[k][1] = CommaSeparator
    /\ Len(parse_result[1][2]) = 1
    /\ parse_result[1][2][1].pre_expr = "Tuple"
    /\ Len(parse_result[1][2][1].children) = 2

(***************************************************************************)
(* Claims about comments (checked under SpecComments).                     *)
(***************************************************************************)
\* where the first `;;` of s stands, and where its line ends: the position
\* of the next line feed, or one past the end of s
RECURSIVE CommentStart(_, _)
CommentStart(s, p) ==
    IF p >= Len(s) THEN 0
    ELSE IF s[p] = ";" /\ s[p + 1] = ";" THEN p ELSE CommentStart(s, p + 1)
RECURSIVE LineEnd(_, _)
LineEnd(s, p) == IF p > Len(s) \/ s[p] = "\n" THEN p ELSE LineEnd(s, p + 1)
\* the source up to the end of the comment's line
ThroughComment(s) == SubSeq(s, 1, LineEnd(s, CommentStart(s, 1)) - 1)

\* C33: a `;;` comment extends to the end of its line and is pure
\* whitespace: whatever characters stand between the `;;` and the next
\* line feed (or the end of the input), lex does not fail on them and
\* emits no token other than Whitespace for them.
C33_CommentIsWhitespace ==
    (lexed # None /\ CommentStart(input, 1) > 0)
        => /\ IsOk(lex(ThroughComment(input)))
           /\ IsOk(lexed[1])
                => \A k \in 1..Len(lexed[1][2]) :
                     (lexed[1][2][k][2] = 1 /\ lexed[1][2][k][3] >= CommentStart(input, 1))
                        => lexed[1][2][k][1] = Whitespace

(***************************************************************************)
(* Claims about what apply returns and leaves behind (checked under        *)
(* SpecCalls).                                                             *)
(***************************************************************************)
IsRuntime(r) == IsErr(r) /\ r[2][1] = "Runtime"
HasTrace(r) == IsRuntime(r) /\ r[2][3] # None
\* the step is a return of apply from an application that was pushed
Returns == returned' # returned
RemovalFailed(r) ==
    IsErr(CallStack_remove(r.call_stack, r.function.identifier, track_recursion(r.function)).ret)

\* C34: a stack trace is attached only by apply, only to a Runtime error
\* and only when the error carries none: an error born at the checks of
\* apply carries no trace; an application hands the result of its nested
\* evaluation on as it is, a trace it already carries included, or, when
\* that result is a Runtime error without a trace that its function
\* produced, with the call stack of this application attached; an error
\* that is not a Runtime error never gets a trace.  (The result is given up
\* only for the failure of the native function's cost charge or of the
\* removal from the call stack, neither of which is a Runtime error.)
C34_TraceAttachedOnce ==
    [][/\ (Applies /\ resp' # None) => ~HasTrace(resp'[1])
       /\ Returns =>
            LET r == returned'[1]
                ret == resp'[1]
            IN  /\ \/ ret = r.nested
                   \/ /\ IsRuntime(r.nested) /\ ~HasTrace(r.nested) /\ r.via = "body"
                      /\ ret = Err(<<"Runtime", r.nested[2][2], Some(r.call_stack.stack)>>)
                   \/ /\ IsErr(ret) /\ ret[2][1] \in {"Interpreter", "Unchecked"}
                      /\ RemovalFailed(r) \/ r.function.kind = "NativeFunction"
                /\ HasTrace(r.nested) /\ IsRuntime(ret) => ret = r.nested
                /\ ~IsRuntime(r.nested) => ~HasTrace(ret)
                /\ (IsRuntime(ret) /\ r.via = "body") => HasTrace(ret)]_call_vars
\* a Runtime error that got its trace three applications deep has come
\* through an enclosing application with that trace
C34_Witness ==
    /\ returned # None /\ resp # None
    /\ HasTrace(returned[1].nested)
    /\ returned[1].via = "body"
    /\ resp[1] = returned[1].nested
    /\ Len(resp[1][2][3][1]) = ShortNesting
    /\ Len(returned[1].call_stack.stack) < ShortNesting

\* C36: apply leaves the call stack as it found it on every return path:
\* an apply that is refused pushes nothing, and an application that was
\* pushed returns with its identifier removed, so that the stack (and the
\* set of tracked functions) is what it was before the identifier went on.
C36_CallStackRestored ==
    [][/\ (Applies /\ resp' # None) => env'[1].call_stack = env[1].call_stack
       /\ Returns =>
            LET r == returned'[1]
                n == Len(r.call_stack.stack)
            IN  /\ n > 0 /\ r.call_stack.stack[n] = r.function.identifier
                /\ env'[1].call_stack.stack = SubSeq(r.call_stack.stack, 1, n - 1)
                /\ env'[1].call_stack.set =
                      IF track_recursion(r.function)
                      THEN r.call_stack.set \ {r.function.identifier}
                      ELSE r.call_stack.set]_call_vars


(***************************************************************************)
(* Claims about the type checking of the map functions (checked under      *)
(* SpecMaps).                                                              *)
(***************************************************************************)
Mutates(k) == k.op \in {"set-entry", "insert-entry"}
\* the call has its arguments, their types are known and the map is defined
Typable(k) ==
    /\ Len(k.args) >= (IF Mutates(k) THEN 3 ELSE 2)
    /\ k.args[1].atom # None
    /\ k.args[1].atom[1] \in DOMAIN MapsDefined
    /\ IsOk(k.args[2].type)
    /\ Mutates(k) => IsOk(k.args[3].type)
DeclaredKey(k) == MapsDefined[k.args[1].atom[1]][1]
DeclaredValue(k) == MapsDefined[k.args[1].atom[1]][2]
KeyAdmitted(k) == admits_type(DeclaredKey(k), k.args[2].type[2])
ValueAdmitted(k) == Mutates(k) => admits_type(DeclaredValue(k), k.args[3].type[2])
AcceptedType(k) == IF k.op = "fetch-entry" THEN OptionalType(DeclaredValue(k)) ELSE BoolType
Mismatch(k) ==
    IF ~KeyAdmitted(k) THEN TypeError(DeclaredKey(k), k.args[2].type[2])
    ELSE TypeError(DeclaredValue(k), k.args[3].type[2])
\* the number of cost charges that precede the admission checks
ChargesOf(k) == CASE k.op = "fetch-entry" -> 3 [] k.op = "delete-entry" -> 2 [] OTHER -> 4
OverBudget(k) == k.checker.cost_track.total.runtime + ChargesOf(k) * k.cost > k.checker.cost_track.limit.runtime
\* Optional(declared value type) is not a type: too deep or too large
NoOption(k) ==
    k.op = "fetch-entry"
        /\ (type_depth(DeclaredValue(k)) >= MAX_TYPE_DEPTH
            \/ type_size(DeclaredValue(k)) + WRAPPER_VALUE_SIZE > MAX_VALUE_SIZE)

\* C35 as stated: a map function applied to a defined map with typed
\* arguments yields Optional(declared value type) (fetch-entry) or Bool
\* (delete-entry, set-entry, insert-entry) exactly when the supplied key type
\* and, for set-entry and insert-entry, the supplied value type are admitted,
\* and otherwise TypeError(expected, supplied), the key mismatch first; an
\* undefined map gives NoSuchMap and a non-atom map name BadMapName.
C35_AsStated ==
    checked # None =>
        LET k == checked[1]
        IN  /\ Typable(k) =>
                k.ret = IF KeyAdmitted(k) /\ ValueAdmitted(k) THEN Ok(AcceptedType(k)) ELSE Mismatch(k)
            /\ (Len(k.args) >= (IF Mutates(k) THEN 3 ELSE 2) /\ k.args[1].atom = None)
                => k.ret = Err(<<"BadMapName">>)
            /\ (Len(k.args) >= (IF Mutates(k) THEN 3 ELSE 2) /\ k.args[1].atom # None
                    /\ IsOk(k.args[2].type) /\ (Mutates(k) => IsOk(k.args[3].type))
                    /\ k.args[1].atom[1] \notin DOMAIN MapsDefined)
                => k.ret = Err(<<"NoSuchMap", k.args[1].atom[1]>>)

\* C35 amended: the same, except that the cost charges and, for fetch-entry,
\* the construction of Optional(declared value type) come before the
\* admission checks: the result is a cost error exactly when the charges
\* exceed the budget, else the construction error when Optional(declared
\* value type) is too deep or too large, and only else decided by admission.
C35_MapTypeChecking ==
    checked # None =>
        LET k == checked[1]
        IN  /\ Typable(k) =>
                /\ IsCostError(k.ret) <=> OverBudget(k)
                /\ (~IsCostError(k.ret) /\ NoOption(k))
                    => k.ret \in {Err(<<"TypeSignatureTooDeep">>), Err(<<"ValueTooLarge">>)}
                /\ (~IsCostError(k.ret) /\ ~NoOption(k))
                    => k.ret = IF KeyAdmitted(k) /\ ValueAdmitted(k) THEN Ok(AcceptedType(k)) ELSE Mismatch(k)
            /\ (Len(k.args) >= (IF Mutates(k) THEN 3 ELSE 2) /\ k.args[1].atom = None)
                => k.ret = Err(<<"BadMapName">>)
            /\ (Len(k.args) >= (IF Mutates(k) THEN 3 ELSE 2) /\ k.args[1].atom # None
                    /\ IsOk(k.args[2].type) /\ (Mutates(k) => IsOk(k.args[3].type))
                    /\ k.args[1].atom[1] \notin DOMAIN MapsDefined)
                => k.ret = Err(<<"NoSuchMap", k.args[1].atom[1]>>)
\* set-entry was given a key and a value that are both not admitted
C35_Witness ==
    /\ checked # None
    /\ checked[1].op = "set-entry"
    /\ Typable(checked[1])
    /\ ~KeyAdmitted(checked[1]) /\ ~ValueAdmitted(checked[1])
    /\ checked[1].ret = TypeError(BufferType(2), BufferType(3))

(***************************************************************************)
(* Claims about the abort callback and the cost tracker of a block.        *)
(***************************************************************************)
AbortOps == {"run_contract_call", "initialize_smart_contract"}
\* C37: run_contract_call and initialize_smart_contract invoke the abort
\* callback exactly once when the execution succeeded and never when it
\* failed; the callback finds the cost tracker back in the connection, as
\* the execution left it, and the nested transaction still open with the
\* execution's writes pending in it.
C37_AbortCallbackOnce ==
    last.op \in AbortOps =>
        /\ IsOk(last.ret) =>
            /\ Len(last.called_back) = 1
            /\ last.called_back[1].cost_track # None
            /\ last.called_back[1].cost_track = conn[1].cost_track
            /\ last.called_back[1].depth = 1
            /\ last.called_back[1].writes = last.writes
            /\ (Committed(last) \/ RolledBack(last))
        /\ ~IsOk(last.ret) => last.called_back = <<>>
\* run_contract_call succeeded with a write pending and with cost spent, and
\* its callback, which saw both, had it rolled back
C37_Witness ==
    /\ last.op = "run_contract_call"
    /\ IsOk(last.ret)
    /\ last.args[3] = TRUE
    /\ RolledBack(last)
    /\ Len(last.called_back) = 1
    /\ last.called_back[1].writes # EmptyKV
    /\ last.called_back[1].cost_track[1].total.runtime > 0

\* C38: every block connection starts with a fresh cost tracker whose total
\* is zero and whose limit is the maximum limit (begin_block) or the given
\* limit (begin_block_with_limit), whatever earlier blocks have spent.
C38_FreshTrackerPerBlock ==
    (last.op \in BeginOps /\ IsOk(last.ret)) =>
        /\ conn # None
        /\ conn[1].cost_track # None
        /\ conn[1].cost_track[1].total = ExecutionCost(0)
        /\ conn[1].cost_track[1].limit =
               IF last.op = "begin_block" THEN ExecutionCost(U64Max) ELSE last.args[1]
\* a block was begun with a limit smaller than what the block before it spent
C38_Witness ==
    /\ last.op = "begin_block_with_limit"
    /\ IsOk(last.ret)
    /\ spent # None
    /\ spent[1] > last.args[1].runtime
    /\ conn[1].cost_track[1].total.runtime = 0

(***************************************************************************)
(* The lexer's context after a closing `)` or `}` (checked under           *)
(* SpecLexer).                                                             *)
(***************************************************************************)
ClosingHandlers == {"RParens", "RCurly"}
ClosingItems == {"RightParen", "RightCurly"}
\* no token up to token k fails on its own, none before it lacks its separator
SoundUpTo(ms, k) ==
    /\ \A j \in 1..k : IsOk(token_of(ms[j]))
    /\ \A j \in 1..(k - 1) : ~Unseparated(ms, j)
\* C39: a closing `)` or `}` leaves the lexer expecting a closer, as a
\* literal does: in a token stream that lex returns, the token after `)` or
\* `}` is whitespace, `)`, `}`, `,` or `:`, and a source in which any other
\* token directly follows `)` or `}` fails, with SeparatorExpected carrying
\* that token's text when nothing before it failed; a token that directly
\* follows `(`, `{`, `,`, `:` or whitespace is never refused for its place.
C39_ClosersExpectClosing ==
    lexed # None =>
        LET r == lexed[1]
            ms == Matches(input, 1)
        IN  /\ IsOk(r) => \A k \in 1..(Len(r[2]) - 1) :
                             r[2][k][1].item \in ClosingItems => r[2][k + 1][1].item \in CloserItems
            /\ \A k \in 1..(Len(ms) - 1) :
                 /\ (ms[k].handler \in ClosingHandlers /\ ms[k + 1].handler \notin CloserHandlers)
                        => /\ IsErr(r)
                           /\ SoundUpTo(ms, k)
                                => r = ParseErrorOf("SeparatorExpected", TextOf(input, ms[k + 1]))
                 /\ (ms[k].handler \in ResetHandlers /\ SoundUpTo(ms, k))
                        => IF IsErr(token_of(ms[k + 1])) THEN r = token_of(ms[k + 1])
                           ELSE r # ParseErrorOf("SeparatorExpected", TextOf(input, ms[k + 1]))
                                \/ \E j \in (k + 1)..(Len(ms) - 1) :
                                       Unseparated(ms, j) /\ TextOf(input, ms[j + 1]) = TextOf(input, ms[k + 1])
\* `)(` is refused at the `(`
C39_Witness ==
    /\ lexed = Some(ParseErrorOf("SeparatorExpected", <<"(">>))
    /\ Len(input) >= 2 /\ input[1] = ")" /\ input[2] = "("

(***************************************************************************)
(* Claims about from_data_typed (checked under SpecTypedTuples).           *)
(***************************************************************************)
NamesIn(map) == {map[i][1] : i \in 1..Len(map)}
\* field j of the list is unknown to the type, or its value is not admitted
Unfit(fields, expected, j) ==
    \/ field_type(expected, fields[j][1]) = None
    \/ ~admits(field_type(expected, fields[j][1])[1], fields[j][2])
\* C40: every TupleData that from_data_typed returns holds exactly one value
\* for every field of the expected tuple type and no other field: a field
\* list that names an unknown field, carries a value its field's type does
\* not admit, omits an expected field or repeats a field name is rejected.
C40_TypedTupleComplete ==
    (constructed # None /\ constructed[1].op = "from_data_typed") =>
        LET fields == constructed[1].fields
            expected == constructed[1].expected
            ret == constructed[1].ret
        IN  /\ IsOk(ret) =>
                /\ NamesIn(ret[2].data_map) = NamesIn(expected)
                /\ Len(ret[2].data_map) = Len(expected)
            /\ ((\E j \in 1..Len(fields) : Unfit(fields, expected, j) \/ Repeats(fields, j))
                    \/ NamesIn(fields) # NamesIn(expected))
                  => IsErr(ret)
=============================================================================
